---- MODULE Spec2Model ----
(***************************************************************************)
(* A model of the spatial graph engine of src/src/graph.ts                 *)
(* (createSpatialGraph) and of the direction registry of                   *)
(* src/src/direction.ts.                                                   *)
(*                                                                         *)
(* The node table and the connection table are the closure's two Maps.     *)
(* A JavaScript Map keeps its keys in insertion order and the pathfinder   *)
(* reads the exits of a node in that order, so the inner Map of a node is  *)
(* a sequence of connections, in insertion order.  A gate is an object     *)
(* that a connection refers to: the connection holds a reference into      *)
(* gateHeap, so that two connections which were given the same object      *)
(* share it.                                                               *)
(***************************************************************************)
EXTENDS Integers, Sequences, FiniteSets, TLC

VARIABLES
    nodes,        \* graph.ts:48   ids of the nodes Map
    zones,        \* graph.ts:659  node id -> zone of the node (NoZone: none)
    connections,  \* graph.ts:49   source id -> exits in insertion order
    gateHeap,     \* the Gate objects the connections refer to
    opposites,    \* direction.ts:31 the process-wide opposites Map
    flagStore,    \* graph.ts:53   options.flagStore
    traversal,    \* the last canTraverse answered since the graph changed
    call,         \* the last path query answered since the graph changed
    last,         \* the operation that last added or removed a node or a
                  \* connection
    listeners,    \* graph.ts:51   event -> its callbacks in insertion order
    delivered,    \* the callbacks that ran during the last call that changed
                  \* the graph or its listeners, in the order in which they ran
    tiles,        \* graph.ts:148  node id -> tiles of the node, for the nodes
                  \* that were given tiles
    tileIndex,    \* graph.ts:50   tile key -> node id
    customCanTraverse,  \* graph.ts:54 options.canTraverse
    closures,     \* graph.ts:802  (event, callback) -> the number of functions
                  \* on(event, callback) returned that were not called yet
    elsewhere,    \* the registerDirection call another graph of the process
                  \* made, when no registerDirection call followed it
    snapshot      \* graph.ts:832 the object serialize() returned that the
                  \* caller still holds, with references to the Gate objects

vars == <<nodes, zones, connections, gateHeap, opposites, flagStore, traversal,
          call, last, listeners, delivered, tiles, tileIndex, customCanTraverse,
          closures, elsewhere, snapshot>>

(***************************************************************************)
(* Bounds of the model.                                                    *)
(***************************************************************************)
MaxConnections == 2
MaxPathConnections == 4

NodeIds == {"a", "b", "c"}
Directions == {"NORTH", "SOUTH"}

NoZone == "undefined"
NoGate == 0
Null == "null"
NullObject == [null |-> TRUE]
Undefined == [undefined |-> TRUE]
HeapRefs == 1..(MaxConnections + MaxPathConnections)
Free == [free |-> TRUE]

(***************************************************************************)
(* direction.ts                                                            *)
(***************************************************************************)
\* direction.ts:31-44, restricted to the directions of the model: PORTAL is
\* a direction nobody registered, which has no entry.
BuiltinOpposites == [d \in {"NORTH", "SOUTH"} |-> IF d = "NORTH" THEN "SOUTH" ELSE "NORTH"]

\* A registration that does not reach the Map the graphs read.
registerCustomDirection_Unshared(registry, direction, oppositeDir) == registry

\* direction.ts:115-125: the opposites Map after registerCustomDirection
registerCustomDirection(registry, direction, oppositeDir) ==
    LET set == [d \in DOMAIN registry \cup {direction} |->
                   IF d = direction THEN oppositeDir ELSE registry[d]]
    IN IF oppositeDir # Null
       THEN [d \in DOMAIN set \cup {oppositeDir} |->
                IF d = oppositeDir THEN direction ELSE set[d]]
       ELSE set

\* direction.ts:84-86 / graph.ts:881-883
getOppositeDirection(dir) ==
    IF dir \in DOMAIN opposites THEN opposites[dir] ELSE Null

(***************************************************************************)
(* Optional properties: an object is a record, an absent property is not   *)
(* in its domain.                                                          *)
(***************************************************************************)
Has(obj, key) == key \in DOMAIN obj

\* obj?.key ?? default
OrElse(obj, key, default) == IF Has(obj, key) THEN obj[key] ELSE default

NoOptions == [key \in {} |-> key]

(***************************************************************************)
(* The node ids of the model, in a fixed order.                            *)
(***************************************************************************)
NodeOrder == <<"a", "b", "c", "d">>

(***************************************************************************)
(* Map helpers: the inner Map<Direction, InternalConnection> of a node.    *)
(***************************************************************************)
RECURSIVE IndexOf(_, _, _)
IndexOf(exits, dir, i) ==
    IF i > Len(exits) THEN 0
    ELSE IF exits[i].direction = dir THEN i
    ELSE IndexOf(exits, dir, i + 1)

\* Map.prototype.has
MapHas(exits, dir) == IndexOf(exits, dir, 1) # 0

\* Map.prototype.get, for a key that is there
MapGet(exits, dir) == exits[IndexOf(exits, dir, 1)]

\* Map.prototype.set: a key that is there keeps its place, a new key goes last
MapSet(exits, conn) ==
    LET i == IndexOf(exits, conn.direction, 1)
    IN IF i = 0 THEN Append(exits, conn) ELSE [exits EXCEPT ![i] = conn]

\* Map.prototype.delete
MapDelete(exits, dir) == SelectSeq(exits, LAMBDA c : c.direction # dir)

\* connections.get(from)?.get(direction) is defined
HasConnection(conns, from, dir) ==
    from \in DOMAIN conns /\ MapHas(conns[from], dir)

Conn(conns, from, dir) == MapGet(conns[from], dir)

\* connections.get(from)?.get(direction)?.gate is defined
HasGate(conns, from, dir) ==
    IF HasConnection(conns, from, dir) THEN Conn(conns, from, dir).gate # NoGate ELSE FALSE

\* if (!connections.has(from)) connections.set(from, new Map());
\* connections.get(from)?.set(direction, connection)
PutConnection(conns, from, conn) ==
    LET exits == IF from \in DOMAIN conns THEN conns[from] ELSE <<>>
    IN [n \in DOMAIN conns \cup {from} |->
            IF n = from THEN MapSet(exits, conn) ELSE conns[n]]

DropConnection(conns, from, dir) ==
    [conns EXCEPT ![from] = MapDelete(conns[from], dir)]

\* The places <<source, index>> of the stored connections.
AllConnections(conns) ==
    UNION {{<<n, i>> : i \in 1..Len(conns[n])} : n \in DOMAIN conns}

RECURSIVE CountFrom(_, _)
CountFrom(conns, i) ==
    IF i > Len(NodeOrder) THEN 0
    ELSE (IF NodeOrder[i] \in DOMAIN conns THEN Len(conns[NodeOrder[i]]) ELSE 0)
         + CountFrom(conns, i + 1)

\* The number of stored connections.
ConnectionCount(conns) == CountFrom(conns, 1)

(***************************************************************************)
(* The gate objects.  References are kept canonical: the objects are       *)
(* numbered in the order in which the connection table meets them, and an  *)
(* object no connection refers to is gone.  Which connections share an     *)
(* object does not depend on the numbering.                                *)
(***************************************************************************)
LiveRefs(conns) == {conns[p[1]][p[2]].gate : p \in AllConnections(conns)} \ {NoGate}

HasRefs(conns) ==
    \E n \in DOMAIN conns : \E i \in 1..Len(conns[n]) : conns[n][i].gate # NoGate

\* The objects a held snapshot refers to.
HeldRefs == IF snapshot = Undefined THEN {} ELSE LiveRefs(snapshot.connections)

\* A new object: a reference neither a connection of conns nor a held
\* snapshot holds.
NewRef(conns) == CHOOSE r \in HeapRefs \ (LiveRefs(conns) \cup HeldRefs) :
                    \A s \in HeapRefs \ (LiveRefs(conns) \cup HeldRefs) : r <= s

RECURSIVE Flatten(_, _)
Flatten(conns, i) ==
    IF i > Len(NodeOrder) THEN <<>>
    ELSE (IF NodeOrder[i] \in DOMAIN conns THEN conns[NodeOrder[i]] ELSE <<>>)
         \o Flatten(conns, i + 1)

RECURSIVE RefOrder(_, _, _)
RefOrder(exits, i, seen) ==
    IF i > Len(exits) THEN seen
    ELSE LET r == exits[i].gate
         IN RefOrder(exits, i + 1,
                IF r = NoGate \/ (\E k \in 1..Len(seen) : seen[k] = r)
                THEN seen ELSE Append(seen, r))

RefRank(order, r) == CHOOSE k \in 1..Len(order) : order[k] = r

NormalConnections(conns) ==
    IF ~HasRefs(conns) THEN conns
    ELSE LET order == RefOrder(Flatten(conns, 1), 1, <<>>)
         IN [n \in DOMAIN conns |->
               [i \in 1..Len(conns[n]) |->
                   [conns[n][i] EXCEPT !.gate = IF @ = NoGate THEN NoGate
                                                ELSE RefRank(order, @)]]]

NormalHeap(heap, conns) ==
    IF ~HasRefs(conns) THEN [r \in HeapRefs |-> Free]
    ELSE LET order == RefOrder(Flatten(conns, 1), 1, <<>>)
         IN [r \in HeapRefs |-> IF r <= Len(order) THEN heap[order[r]] ELSE Free]

\* The references of conns numbered as order numbers them.
Renumbered(conns, order) ==
    [n \in DOMAIN conns |->
        [i \in 1..Len(conns[n]) |->
            [conns[n][i] EXCEPT !.gate = IF @ = NoGate THEN NoGate
                                         ELSE RefRank(order, @)]]]

\* The connection table and the gate objects after an operation.  The
\* objects a held snapshot refers to stay, numbered after those of the
\* connection table.
Store(conns, heap) ==
    IF snapshot = Undefined
    THEN /\ connections' = NormalConnections(conns)
         /\ gateHeap' = NormalHeap(heap, conns)
         /\ snapshot' = snapshot
    ELSE LET order == RefOrder(Flatten(conns, 1) \o Flatten(snapshot.connections, 1),
                               1, <<>>)
         IN /\ connections' = Renumbered(conns, order)
            /\ gateHeap' = [r \in HeapRefs |->
                               IF r <= Len(order) THEN heap[order[r]] ELSE Free]
            /\ snapshot' = [snapshot EXCEPT !.connections = Renumbered(@, order)]

\* graph.ts:390-393, read in the tables conns and heap
GateAt(conns, heap, from, direction) ==
    IF HasGate(conns, from, direction)
    THEN heap[Conn(conns, from, direction).gate]
    ELSE NullObject

(***************************************************************************)
(* Events.  The callbacks of the model change nothing: a callback asks the *)
(* graph about what the event announces and the answer is kept in seen.    *)
(* An emission is the event, its arguments and the graph as it is at the   *)
(* emit call.                                                              *)
(***************************************************************************)
EventNames ==
    {"nodeCreated", "nodeRemoved", "connectionCreated", "connectionRemoved",
     "gateUpdated"}

NoListeners == [event \in EventNames |-> <<>>]

\* emit('nodeCreated', id, nodeData) and emit('nodeRemoved', id), in a graph
\* whose nodes are nds; seen is hasNode(id), asked inside the callback
NodeEvent(event, id, nds) ==
    [event |-> event, from |-> id, direction |-> "", arg |-> [id |-> id],
     seen |-> [hasNode |-> id \in nds]]

\* emit('connectionCreated', from, direction, to) and
\* emit('connectionRemoved', from, direction), with to = "", in a graph whose
\* connections are conns; seen is the target of getConnection(from,
\* direction), asked inside the callback, or null
ConnectionEvent(event, from, direction, to, conns) ==
    [event |-> event, from |-> from, direction |-> direction, arg |-> [to |-> to],
     seen |-> [target |-> IF HasConnection(conns, from, direction)
                          THEN Conn(conns, from, direction).target ELSE Null]]

\* emit('gateUpdated', from, direction, gate); seen is getGate(from,
\* direction), asked inside the callback
GateEvent(from, direction, gate, conns, heap) ==
    [event |-> "gateUpdated", from |-> from, direction |-> direction,
     arg |-> [gate |-> gate],
     seen |-> [gate |-> GateAt(conns, heap, from, direction)]]

\* The callbacks in the opposite order.
emit_LastFirst(callbacks, emission) ==
    [i \in 1..Len(callbacks[emission.event]) |->
        [callback |-> callbacks[emission.event][Len(callbacks[emission.event]) + 1 - i],
         event |-> emission.event, from |-> emission.from,
         direction |-> emission.direction, arg |-> emission.arg,
         seen |-> emission.seen]]

\* graph.ts:60-67: callbacks.forEach runs the callbacks of the Set in
\* insertion order, inside the emit call
emit(callbacks, emission) ==
    [i \in 1..Len(callbacks[emission.event]) |->
        [callback |-> callbacks[emission.event][i],
         event |-> emission.event, from |-> emission.from,
         direction |-> emission.direction, arg |-> emission.arg,
         seen |-> emission.seen]]

\* The functions on returned that were not called yet.
NoClosures == [p \in {} |-> 0]
Closures(held, event, callback) ==
    IF <<event, callback>> \in DOMAIN held THEN held[<<event, callback>>] ELSE 0
WithClosures(held, event, callback, n) ==
    [p \in (DOMAIN held \ {<<event, callback>>})
            \cup (IF n > 0 THEN {<<event, callback>>} ELSE {}) |->
        IF p = <<event, callback>> THEN n ELSE held[p]]

\* graph.ts:793-805: Set.prototype.add keeps the place of a callback that
\* is there; the call returns a new function
on(event, callback) ==
    /\ listeners' = [listeners EXCEPT ![event] =
                        IF \E i \in 1..Len(@) : @[i] = callback
                        THEN @ ELSE Append(@, callback)]
    /\ closures' = WithClosures(closures, event, callback,
                                Closures(closures, event, callback) + 1)
    /\ delivered' = <<>>
    /\ UNCHANGED <<tiles, tileIndex, customCanTraverse, elsewhere, snapshot>>
    /\ UNCHANGED <<nodes, zones, connections, gateHeap, opposites, flagStore,
                   traversal, call, last>>

\* graph.ts:802-804: a call of one of the functions on(event, callback)
\* returned
unsubscribe(event, callback) ==
    /\ Closures(closures, event, callback) > 0
    /\ listeners' = [listeners EXCEPT ![event] =
                        SelectSeq(@, LAMBDA c : c # callback)]
    /\ closures' = WithClosures(closures, event, callback,
                                Closures(closures, event, callback) - 1)
    /\ delivered' = <<>>
    /\ UNCHANGED <<tiles, tileIndex, customCanTraverse, elsewhere, snapshot>>
    /\ UNCHANGED <<nodes, zones, connections, gateHeap, opposites, flagStore,
                   traversal, call, last>>

(***************************************************************************)
(* The public operations.  last names the operation that last added or     *)
(* removed a node or a connection, and the node it removed; a call that    *)
(* throws before it changed anything, or that finds nothing to do, leaves  *)
(* every variable as it was.                                               *)
(***************************************************************************)
Returned(op, id) == [op |-> op, id |-> id]

\* What a query answered is kept until the graph changes.
NoTraversal == [op |-> "none"]
NoCall == [op |-> "none"]
Forget == traversal' = NoTraversal /\ call' = NoCall

\* throw new ValidationError(...) in a call that has changed nothing yet
Throw == UNCHANGED vars

\* graph.ts:57: the key of a tile in tileIndex; the tuple stands for the
\* string `${layer}:${x}:${y}`, which differs when one of the numbers does
tileKey(x, y, layer) == <<layer, x, y>>

NoTiles == [n \in {} |-> <<>>]
NoIndex == [k \in {} |-> ""]

\* graph.ts:131, 137-141: the tiles of opts with their layer; a tile without
\* a layer gets the layer of the node, which is 1 when opts names none
NormalizedTiles(opts) ==
    [i \in 1..Len(opts.tiles) |->
        [x |-> opts.tiles[i].x, y |-> opts.tiles[i].y,
         layer |-> OrElse(opts.tiles[i], "layer", OrElse(opts, "layer", 1))]]

TileKeys(tls) == {tileKey(tls[i].x, tls[i].y, tls[i].layer) : i \in 1..Len(tls)}

\* graph.ts:153-158: tileIndex.set(key, id) for every tile
Indexed(index, id, tls) ==
    [k \in DOMAIN index \cup TileKeys(tls) |->
        IF k \in TileKeys(tls) THEN id ELSE index[k]]

\* graph.ts:178-183: tileIndex.delete(key) for every tile
Unindexed(index, tls) ==
    [k \in DOMAIN index \ TileKeys(tls) |-> index[k]]

\* graph.ts:611-614
getNodeAt(x, y, layer) ==
    IF tileKey(x, y, layer) \in DOMAIN tileIndex
    THEN tileIndex[tileKey(x, y, layer)] ELSE Null

\* graph.ts:616-619
getTiles(nodeId) == IF nodeId \in DOMAIN tiles THEN tiles[nodeId] ELSE <<>>

\* createNode that accepts the id of an existing node
createNodeError_NoDuplicates(id) == IF id = "" THEN "ValidationError" ELSE ""

\* graph.ts:124-129: what createNode throws, "" when it returns
createNodeError(id) ==
    IF id = "" THEN "ValidationError"
    ELSE IF id \in nodes THEN "ValidationError"
    ELSE ""

\* graph.ts:123-161 (without metadata)
CreateNode(id, opts) ==
    \/ /\ createNodeError(id) # ""
       /\ Throw
    \/ /\ createNodeError(id) = ""
       /\ nodes' = nodes \cup {id}
       /\ zones' = [zones EXCEPT ![id] = NoZone]
       /\ IF Has(opts, "tiles")
          THEN /\ tiles' = [n \in DOMAIN tiles \cup {id} |->
                               IF n = id THEN NormalizedTiles(opts) ELSE tiles[n]]
               /\ tileIndex' = Indexed(tileIndex, id, NormalizedTiles(opts))
          ELSE UNCHANGED <<tiles, tileIndex>>
       /\ last' = Returned("createNode", "")
       /\ delivered' = emit(listeners, NodeEvent("nodeCreated", id, nodes \cup {id}))
       /\ UNCHANGED <<connections, gateHeap, opposites, flagStore, customCanTraverse,
                      listeners, closures, elsewhere, snapshot>>
       /\ Forget

\* createNode(id), without options
createNode(id) == CreateNode(id, NoOptions)

\* removeNode without graph.ts:188-195: the exits that target id stay
RemoveConnectionsOf_OutgoingOnly(conns, id) ==
    [n \in DOMAIN conns \ {id} |-> conns[n]]

\* removeNode without graph.ts:185: the exits of id stay
RemoveConnectionsOf_IncomingOnly(conns, id) ==
    [n \in DOMAIN conns |-> SelectSeq(conns[n], LAMBDA c : c.target # id)]

\* graph.ts:185-195: connections.delete(id), then every exit that targets id
RemoveConnectionsOf(conns, id) ==
    [n \in DOMAIN conns \ {id} |-> SelectSeq(conns[n], LAMBDA c : c.target # id)]

\* graph.ts:171-201
removeNode(id) ==
    \/ /\ id \notin nodes
       /\ Throw
    \/ /\ id \in nodes
       /\ Store(RemoveConnectionsOf(connections, id), gateHeap)
       /\ nodes' = nodes \ {id}
       /\ zones' = [zones EXCEPT ![id] = NoZone]
       /\ last' = Returned("removeNode", id)
       /\ tiles' = [n \in DOMAIN tiles \ {id} |-> tiles[n]]
       /\ tileIndex' = Unindexed(tileIndex, getTiles(id))
       /\ delivered' = emit(listeners, NodeEvent("nodeRemoved", id, nodes \ {id}))
       /\ UNCHANGED <<opposites, flagStore, customCanTraverse, listeners, closures, elsewhere>>
       /\ Forget

\* graph.ts:224-232: the forward connection
ForwardConnection(direction, to, cost, gate, bidirectional) ==
    [target |-> to, direction |-> direction, gate |-> gate, cost |-> cost,
     bidirectional |-> bidirectional]

\* A reverse connection that is recorded as bidirectional.
ReverseConnection_Bidirectional(opposite, from, cost, gate) ==
    [target |-> from, direction |-> opposite, gate |-> gate, cost |-> cost,
     bidirectional |-> TRUE]

\* graph.ts:248-256: the reverse connection
ReverseConnection(opposite, from, cost, gate) ==
    [target |-> from, direction |-> opposite, gate |-> gate, cost |-> cost,
     bidirectional |-> FALSE]

\* The reverse connection is written over the one that exists.
ReverseWanted_Always(conns, to, opposite) == TRUE

\* graph.ts:246-247: the reverse is created only where none exists
ReverseWanted(conns, to, opposite) == ~HasConnection(conns, to, opposite)

\* graph.ts:221-265: the connection table after connect(from, direction, to,
\* opts), gate being the reference of opts.gate (NoGate: no gate given)
Connected(conns, from, direction, to, opts, gate) ==
    LET bidirectional == OrElse(opts, "bidirectional", TRUE)
        cost == OrElse(opts, "cost", 1)
        forward == PutConnection(conns, from,
                       ForwardConnection(direction, to, cost, gate, bidirectional))
        opposite == getOppositeDirection(direction)
    IN IF bidirectional /\ opposite # Null /\ ReverseWanted(forward, to, opposite)
       THEN PutConnection(forward, to, ReverseConnection(opposite, from, cost, gate))
       ELSE forward

\* connect without graph.ts:262: the reverse connection is not announced
ConnectEmissions_ForwardOnly(conns, from, direction, to, opts, gate) ==
    emit(listeners,
         ConnectionEvent("connectionCreated", from, direction, to,
             PutConnection(conns, from,
                 ForwardConnection(direction, to, OrElse(opts, "cost", 1), gate,
                                   OrElse(opts, "bidirectional", TRUE)))))

\* graph.ts:239 and 262: connectionCreated is emitted for the forward
\* connection before the reverse one is looked at, and for the reverse one
\* when it was stored
ConnectEmissions(conns, from, direction, to, opts, gate) ==
    LET bidirectional == OrElse(opts, "bidirectional", TRUE)
        cost == OrElse(opts, "cost", 1)
        forward == PutConnection(conns, from,
                       ForwardConnection(direction, to, cost, gate, bidirectional))
        opposite == getOppositeDirection(direction)
    IN emit(listeners, ConnectionEvent("connectionCreated", from, direction, to, forward))
       \o (IF bidirectional /\ opposite # Null /\ ReverseWanted(forward, to, opposite)
           THEN emit(listeners,
                     ConnectionEvent("connectionCreated", to, opposite, from,
                         Connected(conns, from, direction, to, opts, gate)))
           ELSE <<>>)

\* graph.ts:208-266
connect(from, direction, to, opts) ==
    \/ /\ ~({from, to} \subseteq nodes)
       /\ Throw
    \/ /\ from \in nodes /\ to \in nodes
       /\ LET ref == IF Has(opts, "gate") THEN NewRef(connections) ELSE NoGate
              heap == IF Has(opts, "gate")
                      THEN [gateHeap EXCEPT ![ref] = opts.gate] ELSE gateHeap
              conns == Connected(connections, from, direction, to, opts, ref)
          IN /\ Store(conns, heap)
             /\ delivered' = ConnectEmissions(connections, from, direction, to, opts, ref)
       /\ last' = Returned("connect", "")
       /\ UNCHANGED <<tiles, tileIndex, customCanTraverse, closures, elsewhere>>
       /\ UNCHANGED <<nodes, zones, opposites, flagStore, listeners>>
       /\ Forget

\* disconnect that ignores opts.bidirectional and follows the recorded flag
Disconnected_RecordedFlag(conns, from, direction, opts) ==
    LET connection == Conn(conns, from, direction)
        removed == DropConnection(conns, from, direction)
        opposite == getOppositeDirection(direction)
    IN IF connection.bidirectional /\ opposite # Null
          /\ HasConnection(removed, connection.target, opposite)
       THEN DropConnection(removed, connection.target, opposite)
       ELSE removed

\* graph.ts:280-296: the connection table after disconnect removed the
\* connection that is at (from, direction)
Disconnected(conns, from, direction, opts) ==
    LET connection == Conn(conns, from, direction)
        removed == DropConnection(conns, from, direction)
        bidirectional == OrElse(opts, "bidirectional", connection.bidirectional)
        opposite == getOppositeDirection(direction)
    IN IF bidirectional /\ connection.target # "" /\ opposite # Null
          /\ HasConnection(removed, connection.target, opposite)
       THEN DropConnection(removed, connection.target, opposite)
       ELSE removed

\* graph.ts:282 and 292: connectionRemoved is emitted for the connection at
\* (from, direction) when it is deleted, and for the one at (target,
\* opposite) when that one is deleted
DisconnectEmissions(conns, from, direction, opts) ==
    LET connection == Conn(conns, from, direction)
        removed == DropConnection(conns, from, direction)
        bidirectional == OrElse(opts, "bidirectional", connection.bidirectional)
        opposite == getOppositeDirection(direction)
    IN emit(listeners, ConnectionEvent("connectionRemoved", from, direction, "", removed))
       \o (IF bidirectional /\ connection.target # "" /\ opposite # Null
              /\ HasConnection(removed, connection.target, opposite)
           THEN emit(listeners,
                     ConnectionEvent("connectionRemoved", connection.target, opposite, "",
                         DropConnection(removed, connection.target, opposite)))
           ELSE <<>>)

\* graph.ts:268-297
disconnect(from, direction, opts) ==
    \/ /\ from \notin nodes
       /\ Throw
    \/ /\ from \in nodes
       /\ ~HasConnection(connections, from, direction)
       /\ UNCHANGED vars
    \/ /\ from \in nodes
       /\ HasConnection(connections, from, direction)
       /\ Store(Disconnected(connections, from, direction, opts), gateHeap)
       /\ delivered' = DisconnectEmissions(connections, from, direction, opts)
       /\ last' = Returned("disconnect", "")
       /\ UNCHANGED <<tiles, tileIndex, customCanTraverse, closures, elsewhere>>
       /\ UNCHANGED <<nodes, zones, opposites, flagStore, listeners>>
       /\ Forget

\* connection.gate ?? null
GateOf(heap, connection) ==
    IF connection.gate = NoGate THEN NullObject ELSE heap[connection.gate]

\* graph.ts:299-316
getConnection(from, direction) ==
    IF ~HasConnection(connections, from, direction) THEN NullObject
    ELSE LET connection == Conn(connections, from, direction)
         IN [target |-> connection.target, direction |-> direction,
             gate |-> GateOf(gateHeap, connection), cost |-> connection.cost]

\* graph.ts:318-339, for a node that exists
getExits(nodeId) ==
    IF nodeId \notin DOMAIN connections THEN <<>>
    ELSE [i \in 1..Len(connections[nodeId]) |->
            [direction |-> connections[nodeId][i].direction,
             target |-> connections[nodeId][i].target,
             gate |-> GateOf(gateHeap, connections[nodeId][i]),
             cost |-> connections[nodeId][i].cost]]

getGate(from, direction) == GateAt(connections, gateHeap, from, direction)

\* connection.gate = gate, for the connection at (from, direction)
WithGate(conns, from, direction, ref) ==
    [conns EXCEPT ![from] =
        MapSet(conns[from], [Conn(conns, from, direction) EXCEPT !.gate = ref])]

\* setGate that accepts every place
setGateError_Never(from, direction) == ""

\* What a call throws: the name of the error, "" when it returns.
\* graph.ts:355-357: if (!connection) throw new ValidationError(...)
setGateError(from, direction) ==
    IF ~HasConnection(connections, from, direction) THEN "ValidationError" ELSE ""

\* graph.ts:367-369: if (!connection?.gate) throw new ValidationError(...)
updateGateError(from, direction) ==
    IF ~HasGate(connections, from, direction) THEN "ValidationError" ELSE ""

\* graph.ts:380-388: removeGate has no throw statement
removeGateError(from, direction) == ""

\* graph.ts:351-361
setGate(from, direction, gate) ==
    \/ /\ setGateError(from, direction) # ""
       /\ Throw
    \/ /\ HasConnection(connections, from, direction)
       /\ LET ref == NewRef(connections)
              conns == WithGate(connections, from, direction, ref)
              heap == [gateHeap EXCEPT ![ref] = gate]
          IN /\ Store(conns, heap)
             /\ delivered' = emit(listeners, GateEvent(from, direction, gate, conns, heap))
       /\ UNCHANGED <<tiles, tileIndex, customCanTraverse, closures, elsewhere>>
       /\ UNCHANGED <<nodes, zones, opposites, flagStore, listeners, last>>
       /\ Forget

\* graph.ts:372-376: the updates are written into the gate object
Merged(gate, updates) == updates @@ gate

\* graph.ts:363-378
updateGate(from, direction, updates) ==
    \/ /\ updateGateError(from, direction) # ""
       /\ Throw
    \/ /\ HasGate(connections, from, direction)
       /\ LET ref == Conn(connections, from, direction).gate
              heap == [gateHeap EXCEPT ![ref] = Merged(gateHeap[ref], updates)]
          IN /\ gateHeap' = heap
             /\ delivered' = emit(listeners,
                                  GateEvent(from, direction, heap[ref], connections, heap))
       /\ UNCHANGED <<tiles, tileIndex, customCanTraverse, closures, elsewhere, snapshot>>
       /\ UNCHANGED <<nodes, zones, connections, opposites, flagStore, listeners, last>>
       /\ Forget

\* graph.ts:380-388
removeGate(from, direction) ==
    \/ /\ ~HasGate(connections, from, direction)
       /\ removeGateError(from, direction) = ""
       /\ UNCHANGED vars
    \/ /\ HasGate(connections, from, direction)
       /\ Store(WithGate(connections, from, direction, NoGate), gateHeap)
       /\ delivered' = emit(listeners,
                            GateEvent(from, direction, NullObject,
                                WithGate(connections, from, direction, NoGate), gateHeap))
       /\ UNCHANGED <<tiles, tileIndex, customCanTraverse, closures, elsewhere>>
       /\ UNCHANGED <<nodes, zones, opposites, flagStore, listeners, last>>
       /\ Forget

\* graph.ts:654-660
setZone(nodeId, zoneId) ==
    \/ /\ nodeId \notin nodes
       /\ Throw
    \/ /\ nodeId \in nodes
       /\ zones' = [zones EXCEPT ![nodeId] = zoneId]
       /\ delivered' = <<>>
       /\ UNCHANGED <<tiles, tileIndex, customCanTraverse, closures, elsewhere, snapshot>>
       /\ UNCHANGED <<nodes, connections, gateHeap, opposites, flagStore, listeners, last>>
       /\ Forget

\* graph.ts:677-682
removeZone(nodeId) ==
    \/ /\ nodeId \notin nodes
       /\ UNCHANGED vars
    \/ /\ nodeId \in nodes
       /\ zones' = [zones EXCEPT ![nodeId] = NoZone]
       /\ delivered' = <<>>
       /\ UNCHANGED <<tiles, tileIndex, customCanTraverse, closures, elsewhere, snapshot>>
       /\ UNCHANGED <<nodes, connections, gateHeap, opposites, flagStore, listeners, last>>
       /\ Forget

\* validate without graph.ts:779-783: the targets are not looked at
TargetErrors_Unchecked(from, exits, i) == <<>>

\* graph.ts:779-783: the errors of the exits of from, from index i on
RECURSIVE TargetErrors(_, _, _)
TargetErrors(from, exits, i) ==
    IF i > Len(exits) THEN <<>>
    ELSE (IF exits[i].target \notin nodes
          THEN <<[problem |-> "target", from |-> from,
                  direction |-> exits[i].direction, missing |-> exits[i].target]>>
          ELSE <<>>)
         \o TargetErrors(from, exits, i + 1)

\* graph.ts:775-784: the errors of the sources NodeOrder[i], NodeOrder[i+1], ...
RECURSIVE ErrorsFrom(_)
ErrorsFrom(i) ==
    IF i > Len(NodeOrder) THEN <<>>
    ELSE (IF NodeOrder[i] \in DOMAIN connections
          THEN (IF NodeOrder[i] \notin nodes
                THEN <<[problem |-> "source", from |-> NodeOrder[i],
                        direction |-> "", missing |-> NodeOrder[i]]>>
                ELSE <<>>)
               \o TargetErrors(NodeOrder[i], connections[NodeOrder[i]], 1)
          ELSE <<>>)
         \o ErrorsFrom(i + 1)

\* graph.ts:772-784: the errors array; an error is modelled by what its
\* message names
ValidationErrors == ErrorsFrom(1)

\* graph.ts:771-790
validate ==
    IF ValidationErrors = <<>> THEN [valid |-> TRUE]
    ELSE [valid |-> FALSE, errors |-> ValidationErrors]

(***************************************************************************)
(* Snapshots.  A snapshot holds the node entries (id, zone and tiles;       *)
(* metadata and layer are not modelled) and, per source, the connection    *)
(* entries in the order of the inner Map.  An entry refers to its Gate     *)
(* object as the connection does (NoGate: null); objects are the objects   *)
(* the entries refer to.                                                   *)
(***************************************************************************)
\* graph.ts:810-812: { ...node }
SerializedNode(id, zns, tls) ==
    (IF zns[id] = NoZone THEN [id |-> id] ELSE [id |-> id, zone |-> zns[id]])
    @@ (IF id \in DOMAIN tls THEN [tiles |-> tls[id]] ELSE NoOptions)

\* graph.ts:818-823: the bidirectional flag is not written
SerializedConnection(conn) ==
    [target |-> conn.target, direction |-> conn.direction, gate |-> conn.gate,
     cost |-> conn.cost]

\* graph.ts:808-836, for the graph of the tables nds, zns, tls, conns and
\* heap
Snapshot(nds, zns, tls, conns, heap) ==
    [nodes |-> [id \in nds |-> SerializedNode(id, zns, tls)],
     connections |-> [from \in DOMAIN conns |->
                        [i \in 1..Len(conns[from]) |->
                            SerializedConnection(conns[from][i])]],
     objects |-> heap]

serialize == Snapshot(nodes, zones, tiles, connections, gateHeap)

\* graph.ts:855-857: if (nodeData.zone) setZone(id, nodeData.zone)
RestoredZone(node) ==
    IF Has(node, "zone") /\ OrElse(node, "zone", "") # "" THEN node.zone ELSE NoZone

\* graph.ts:862-870
RestoredConnection(conn) ==
    [target |-> conn.target, direction |-> conn.direction, gate |-> conn.gate,
     cost |-> OrElse(conn, "cost", 1), bidirectional |-> FALSE]

\* graph.ts:860: Object.entries(data.connections) throws a TypeError when
\* data.connections is undefined
RestoreError(data) == IF Has(data, "connections") THEN "" ELSE "TypeError"

\* graph.ts:860-876: a source gets its inner Map with its first connection;
\* nothing is restored when Object.entries(data.connections) throws
RestoredConnections(data) ==
    IF ~Has(data, "connections") THEN [n \in {} |-> <<>>]
    ELSE [from \in {n \in DOMAIN data.connections : data.connections[n] # <<>>} |->
            [i \in 1..Len(data.connections[from]) |->
                RestoredConnection(data.connections[from][i])]]

\* graph.ts:851-853: createNode(id, opts) with the tiles of the entry
RestoredTiles(data) ==
    [id \in {n \in DOMAIN data.nodes : Has(data.nodes[n], "tiles")} |->
        NormalizedTiles(data.nodes[id])]

\* graph.ts:850-853: the tileIndex the createNode calls leave, from the i-th
\* node entry on
RECURSIVE RestoredIndex(_, _, _)
RestoredIndex(data, i, index) ==
    IF i > Len(NodeOrder) THEN index
    ELSE IF NodeOrder[i] \in DOMAIN RestoredTiles(data)
    THEN RestoredIndex(data, i + 1,
                       Indexed(index, NodeOrder[i], RestoredTiles(data)[NodeOrder[i]]))
    ELSE RestoredIndex(data, i + 1, index)

\* graph.ts:853: createNode emits nodeCreated for each node entry
RECURSIVE RestoreEmissions(_, _)
RestoreEmissions(ids, i) ==
    IF i > Len(NodeOrder) THEN <<>>
    ELSE (IF NodeOrder[i] \in ids
          THEN emit(listeners, NodeEvent("nodeCreated", NodeOrder[i], ids))
          ELSE <<>>)
         \o RestoreEmissions(ids, i + 1)

\* graph.ts:838-878: the tables are cleared first; data without nodes throws
\* a ValidationError after that, and data with nodes but without connections
\* throws a TypeError after the nodes were restored
\* (the caller holds no earlier snapshot any more)
deserialize(data) ==
    \/ /\ ~Has(data, "nodes")
       /\ nodes' = {}
       /\ zones' = [n \in NodeIds |-> NoZone]
       /\ connections' = [n \in {} |-> <<>>]
       /\ gateHeap' = [r \in HeapRefs |-> Free]
       /\ tiles' = NoTiles
       /\ tileIndex' = NoIndex
       /\ delivered' = <<>>
       /\ last' = Returned("deserialize", "ValidationError")
       /\ snapshot' = Undefined
       /\ UNCHANGED <<opposites, flagStore, customCanTraverse, listeners, closures,
                      elsewhere>>
       /\ Forget
    \/ /\ Has(data, "nodes")
       /\ nodes' = DOMAIN data.nodes
       /\ zones' = [n \in NodeIds |->
                       IF n \in DOMAIN data.nodes THEN RestoredZone(data.nodes[n])
                       ELSE NoZone]
       /\ connections' = NormalConnections(RestoredConnections(data))
       /\ gateHeap' = NormalHeap(data.objects, RestoredConnections(data))
       /\ tiles' = RestoredTiles(data)
       /\ tileIndex' = RestoredIndex(data, 1, NoIndex)
       /\ delivered' = RestoreEmissions(DOMAIN data.nodes, 1)
       /\ last' = Returned("deserialize", RestoreError(data))
       /\ snapshot' = Undefined
       /\ UNCHANGED <<opposites, flagStore, customCanTraverse, listeners, closures,
                      elsewhere>>
       /\ Forget

(***************************************************************************)
(* Traversal.  Where no canTraverse override is configured (graph.ts:54),  *)
(* the evaluator is defaultCanTraverse.  A flag store is the set of the        *)
(* conditions its check() answers true for.                                *)
(***************************************************************************)
\* Array.prototype.includes
Includes(list, item) == \E i \in 1..Len(list) : list[i] = item

\* context.<key>?.includes(item)
OptionalIncludes(context, key, item) ==
    IF Has(context, key) THEN Includes(context[key], item) ELSE FALSE

Allowed == [allowed |-> TRUE]
Denied(reason, gateId) == [allowed |-> FALSE, reason |-> reason, gateId |-> gateId]

\* store.check(condition)
Check(store, condition) == condition \in store.check

\* graph.ts:94-103
ConditionResult(gate, context) ==
    LET store == OrElse(context, "flagStore", flagStore)
    IN IF store = Undefined
       THEN Denied(OrElse(gate, "blockedMessage", "blocked"), gate.id)
       ELSE IF ~Check(store, gate.condition)
            THEN Denied(OrElse(gate, "blockedMessage", "blocked"), gate.id)
            ELSE Allowed

\* defaultCanTraverse without graph.ts:79-82: a hidden gate is not looked at
defaultCanTraverse_NoHidden(gate, context) ==
    IF gate = NullObject THEN Allowed
    ELSE IF OrElse(gate, "locked", FALSE)
    THEN IF OrElse(gate, "keyId", "") # ""
            /\ OptionalIncludes(context, "inventory", OrElse(gate, "keyId", ""))
         THEN Allowed
         ELSE Denied("locked", gate.id)
    ELSE IF Has(gate, "condition") THEN ConditionResult(gate, context)
    ELSE Allowed

\* graph.ts:70-106
defaultCanTraverse(gate, context) ==
    IF gate = NullObject THEN Allowed
    ELSE IF OrElse(gate, "hidden", FALSE)
            /\ ~OptionalIncludes(context, "discovered", gate.id)
    THEN Denied("hidden", gate.id)
    ELSE IF OrElse(gate, "locked", FALSE)
    THEN IF OrElse(gate, "keyId", "") # ""
            /\ OptionalIncludes(context, "inventory", OrElse(gate, "keyId", ""))
         THEN Allowed
         ELSE Denied("locked", gate.id)
    ELSE IF Has(gate, "condition") THEN ConditionResult(gate, context)
    ELSE Allowed

\* A CanTraverseFunction given as options.canTraverse: the function named by
\* [deny |-> targets] denies the connections that lead to one of the
\* targets, with the reason "custom", and allows every other connection,
\* whatever its gate and the context
Override(fn, connection, gate, context) ==
    IF connection.target \in fn.deny
    THEN [allowed |-> FALSE, reason |-> "custom"] ELSE Allowed

\* canTraverse that never calls the override
canTraverse_DefaultOnly(from, direction, context) ==
    LET connection == getConnection(from, direction)
    IN IF connection = NullObject
       THEN [allowed |-> FALSE, reason |-> "no connection"]
       ELSE defaultCanTraverse(connection.gate, context)

\* graph.ts:396-410: what canTraverse(from, direction, context) returns;
\* traverseFn is customCanTraverse ?? defaultCanTraverse
canTraverse(from, direction, context) ==
    LET connection == getConnection(from, direction)
    IN IF connection = NullObject
       THEN [allowed |-> FALSE, reason |-> "no connection"]
       ELSE IF customCanTraverse = Undefined
       THEN defaultCanTraverse(connection.gate, context)
       ELSE Override(customCanTraverse, connection, connection.gate, context)

\* A call of canTraverse.
CanTraverse(from, direction, context) ==
    /\ traversal' = [op |-> "canTraverse", from |-> from, direction |-> direction,
                     context |-> context,
                     result |-> canTraverse(from, direction, context)]
    /\ UNCHANGED <<tiles, tileIndex, customCanTraverse, closures, elsewhere, snapshot>>
    /\ UNCHANGED <<nodes, zones, connections, gateHeap, opposites, flagStore, listeners,
                   call, last, delivered>>

(***************************************************************************)
(* Pathfinding.  The search of findPath and of getDistance is the same     *)
(* loop; a loop of the code that never ends is the result Diverges.        *)
(***************************************************************************)
Diverged == 0 - 1
\* Infinity, as the maxDistance of getReachable
NoLimit == 0 - 1
Diverges == [kind |-> "diverges"]

\* graph.ts:493-502; Diverged when previous holds a cycle through node
RECURSIVE PathLengthFrom(_, _, _)
PathLengthFrom(previous, current, count) ==
    IF current \notin DOMAIN previous THEN count
    ELSE IF count >= Cardinality(DOMAIN previous) THEN Diverged
    ELSE PathLengthFrom(previous, previous[current], count + 1)

getPathLength(previous, node) == PathLengthFrom(previous, node, 0)

\* The queue without sorting: a new item goes last.
InsertByCost_Unsorted(sorted, item) == Append(sorted, item)

\* graph.ts:432: Array.prototype.sort is stable, so an item stays behind the
\* items of the same cost that were in the queue before it
RECURSIVE InsertByCost(_, _)
InsertByCost(sorted, item) ==
    IF sorted = <<>> THEN <<item>>
    ELSE IF item.cost < Head(sorted).cost THEN <<item>> \o sorted
    ELSE <<Head(sorted)>> \o InsertByCost(Tail(sorted), item)

RECURSIVE SortFrom(_, _, _)
SortFrom(queue, i, sorted) ==
    IF i > Len(queue) THEN sorted
    ELSE SortFrom(queue, i + 1, InsertByCost(sorted, queue[i]))

\* queue.sort((a, b) => a.cost - b.cost)
SortByCost(queue) == SortFrom(queue, 1, <<>>)

\* A search that skips a denied exit only when avoidLocked is not set.
SkipsExit_UnlessAvoiding(result, opts) ==
    ~result.allowed /\ ~OrElse(opts, "avoidLocked", FALSE)

\* graph.ts:457-465: the exit is skipped when canTraverse denies it, with
\* avoidLocked and without
SkipsExit(result, opts) ==
    IF ~result.allowed /\ ~OrElse(opts, "avoidLocked", FALSE) THEN TRUE
    ELSE ~result.allowed /\ OrElse(opts, "avoidLocked", FALSE)

\* graph.ts:457-485: one pass of the loop over the exits of current.node
RelaxExit(st, current, exit, opts) ==
    IF st.hang THEN st
    ELSE IF SkipsExit(canTraverse(current.node, exit.direction,
                                  OrElse(opts, "context", NoOptions)), opts)
    THEN st
    ELSE LET newCost == current.cost + exit.cost
             length == getPathLength(st.previous, current.node)
             known == exit.target \in DOMAIN st.distances
         IN IF length = Diverged THEN [st EXCEPT !.hang = TRUE]
            ELSE IF Has(opts, "maxLength") /\ length + 2 > opts.maxLength THEN st
            ELSE IF (IF known THEN newCost < st.distances[exit.target] ELSE TRUE)
            THEN [st EXCEPT
                    !.distances = (exit.target :> newCost) @@ @,
                    !.previous = (exit.target :> current.node) @@ @,
                    !.queue = IF exit.target \in st.visited THEN @
                              ELSE Append(@, [node |-> exit.target, cost |-> newCost])]
            ELSE st

RECURSIVE RelaxExits(_, _, _, _, _)
RelaxExits(st, current, exits, i, opts) ==
    IF i > Len(exits) THEN st
    ELSE RelaxExits(RelaxExit(st, current, exits[i], opts), current, exits, i + 1, opts)

\* graph.ts:430-488 and 521-566: the while loop
RECURSIVE Search(_, _, _)
Search(st, to, opts) ==
    IF st.hang THEN Diverges
    ELSE IF st.queue = <<>> THEN [kind |-> "exhausted"]
    ELSE LET sorted == SortByCost(st.queue)
             current == Head(sorted)
             rest == [st EXCEPT !.queue = Tail(sorted)]
         IN IF current.node \in st.visited THEN Search(rest, to, opts)
            ELSE IF current.node = to
            THEN [kind |-> "reached", previous |-> st.previous, cost |-> current.cost]
            ELSE Search(RelaxExits([rest EXCEPT !.visited = @ \cup {current.node}],
                                   current, getExits(current.node), 1, opts),
                        to, opts)

\* graph.ts:426-429
StartOfSearch(from) ==
    [distances |-> (from :> 0), previous |-> [n \in {} |-> n], visited |-> {},
     queue |-> <<[node |-> from, cost |-> 0]>>, hang |-> FALSE]

\* graph.ts:443-449: <<>> when previous holds a cycle and the loop never ends
RECURSIVE Unshift(_, _, _)
Unshift(previous, node, path) ==
    IF Len(path) > Cardinality(DOMAIN previous) THEN <<>>
    ELSE IF node \in DOMAIN previous
    THEN Unshift(previous, previous[node], <<node>> \o path)
    ELSE <<node>> \o path

\* graph.ts:413-491, for a node from that exists
findPath(from, to, opts) ==
    IF from = to THEN [kind |-> "path", path |-> <<from>>]
    ELSE LET found == Search(StartOfSearch(from), to, opts)
         IN IF found.kind = "exhausted" THEN [kind |-> "null"]
            ELSE IF found.kind = "diverges" THEN Diverges
            ELSE IF Unshift(found.previous, to, <<>>) = <<>> THEN Diverges
            ELSE [kind |-> "path", path |-> Unshift(found.previous, to, <<>>)]

\* graph.ts:504-569, for a node from that exists
getDistance(from, to, opts) ==
    IF from = to THEN [kind |-> "number", value |-> 0]
    ELSE LET found == Search(StartOfSearch(from), to, opts)
         IN IF found.kind = "exhausted" THEN [kind |-> "Infinity"]
            ELSE IF found.kind = "diverges" THEN Diverges
            ELSE [kind |-> "number", value |-> found.cost]

\* A call of findPath; getExits throws for a node that does not exist.
FindPath(from, to, opts) ==
    \/ /\ from # to /\ from \notin nodes
       /\ Throw
    \/ /\ (from = to \/ from \in nodes)
       /\ call' = [op |-> "findPath", from |-> from, to |-> to, opts |-> opts,
                   result |-> findPath(from, to, opts)]
       /\ UNCHANGED <<tiles, tileIndex, customCanTraverse, closures, elsewhere, snapshot>>
       /\ UNCHANGED <<nodes, zones, connections, gateHeap, opposites, flagStore, listeners,
                      traversal, last, delivered>>

\* A call of getDistance.
GetDistance(from, to, opts) ==
    \/ /\ from # to /\ from \notin nodes
       /\ Throw
    \/ /\ (from = to \/ from \in nodes)
       /\ call' = [op |-> "getDistance", from |-> from, to |-> to, opts |-> opts,
                   result |-> getDistance(from, to, opts)]
       /\ UNCHANGED <<tiles, tileIndex, customCanTraverse, closures, elsewhere, snapshot>>
       /\ UNCHANGED <<nodes, zones, connections, gateHeap, opposites, flagStore, listeners,
                      traversal, last, delivered>>

\* graph.ts:591-603: the exits of current, in order; an exit that canTraverse
\* allows and whose target is new adds it to visited and to the queue
RECURSIVE VisitExits(_, _, _, _, _)
VisitExits(st, current, exits, i, context) ==
    IF i > Len(exits) THEN st
    ELSE IF /\ canTraverse(current.node, exits[i].direction, context).allowed
            /\ ~Includes(st.visited, exits[i].target)
    THEN VisitExits([visited |-> Append(st.visited, exits[i].target),
                     queue |-> Append(st.queue, [node |-> exits[i].target,
                                                 distance |-> current.distance + 1])],
                    current, exits, i + 1, context)
    ELSE VisitExits(st, current, exits, i + 1, context)

\* getReachable that still expands a node at maxDistance
RECURSIVE Breadth_Inclusive(_, _, _)
Breadth_Inclusive(st, maxDistance, context) ==
    IF st.queue = <<>> THEN st.visited
    ELSE LET current == Head(st.queue)
             rest == [st EXCEPT !.queue = Tail(st.queue)]
         IN IF maxDistance # NoLimit /\ current.distance > maxDistance
            THEN Breadth_Inclusive(rest, maxDistance, context)
            ELSE Breadth_Inclusive(
                     VisitExits(rest, current, getExits(current.node), 1, context),
                     maxDistance, context)

\* graph.ts:581-605: the while loop; maxDistance is NoLimit when it is not given
RECURSIVE Breadth(_, _, _)
Breadth(st, maxDistance, context) ==
    IF st.queue = <<>> THEN st.visited
    ELSE LET current == Head(st.queue)
             rest == [st EXCEPT !.queue = Tail(st.queue)]
         IN IF maxDistance # NoLimit /\ current.distance >= maxDistance
            THEN Breadth(rest, maxDistance, context)
            ELSE Breadth(VisitExits(rest, current, getExits(current.node), 1, context),
                         maxDistance, context)

\* graph.ts:575-608, for a node from that exists: Array.from(visited)
getReachable(from, opts) ==
    Breadth([visited |-> <<from>>, queue |-> <<[node |-> from, distance |-> 0]>>],
            OrElse(opts, "maxDistance", NoLimit),
            OrElse(opts, "context", NoOptions))

\* A call of getReachable; getExits throws for a node that does not exist.
GetReachable(from, opts) ==
    \/ /\ from \notin nodes
       /\ Throw
    \/ /\ from \in nodes
       /\ call' = [op |-> "getReachable", from |-> from, opts |-> opts,
                   result |-> getReachable(from, opts)]
       /\ UNCHANGED <<tiles, tileIndex, customCanTraverse, closures, elsewhere, snapshot>>
       /\ UNCHANGED <<nodes, zones, connections, gateHeap, opposites, flagStore, listeners,
                      traversal, last, delivered>>

(***************************************************************************)
(* The graph under its mutating operations.                                *)
(***************************************************************************)
\* graph.ts:48-51: a new graph is empty
EmptyGraph ==
    /\ nodes = {}
    /\ zones = [n \in NodeIds |-> NoZone]
    /\ connections = [n \in {} |-> <<>>]
    /\ gateHeap = [r \in HeapRefs |-> Free]
    /\ traversal = NoTraversal
    /\ call = NoCall
    /\ last = Returned("createSpatialGraph", "")
    /\ listeners = NoListeners
    /\ tiles = NoTiles
    /\ tileIndex = NoIndex
    /\ customCanTraverse = Undefined
    /\ closures = NoClosures
    /\ elsewhere = NoCall
    /\ snapshot = Undefined
    /\ delivered = <<>>

Init ==
    /\ EmptyGraph
    /\ opposites = BuiltinOpposites
    /\ flagStore = Undefined

\* The operations on nodes, called with arguments of the given sets.
NodeNext(Ids) ==
    \/ \E id \in Ids : createNode(id)
    \/ \E id \in Ids : removeNode(id)

\* The operations on connections.
ConnectionNext(Ids, Dirs, ConnectOpts, DisconnectOpts) ==
    \/ \E from \in Ids, direction \in Dirs, to \in Ids, opts \in ConnectOpts :
          connect(from, direction, to, opts)
    \/ \E from \in Ids, direction \in Dirs, opts \in DisconnectOpts :
          disconnect(from, direction, opts)

\* The operations on gates.
GateNext(Ids, Dirs, Gates, Updates) ==
    \/ \E from \in Ids, direction \in Dirs, gate \in Gates :
          setGate(from, direction, gate)
    \/ \E from \in Ids, direction \in Dirs, updates \in Updates :
          updateGate(from, direction, updates)
    \/ \E from \in Ids, direction \in Dirs : removeGate(from, direction)

\* The operations on zones.
ZoneNext(Ids, Zones) ==
    \/ \E nodeId \in Ids, zoneId \in Zones : setZone(nodeId, zoneId)
    \/ \E nodeId \in Ids : removeZone(nodeId)

\* The graph holds at most MaxConnections connections.
Bounded(max) == ConnectionCount(connections') <= max

DisconnectInputs ==
    {NoOptions, [bidirectional |-> TRUE], [bidirectional |-> FALSE]}

(***************************************************************************)
(* Spec: nodes and connections, on three nodes.                            *)
(***************************************************************************)
ConnectInputs == {NoOptions, [bidirectional |-> FALSE]}

Next ==
    /\ \/ NodeNext(NodeIds)
       \/ ConnectionNext(NodeIds, Directions, ConnectInputs, DisconnectInputs)
    /\ Bounded(MaxConnections)

Spec == Init /\ [][Next]_vars

\* C1: after removeNode(A) returned, getConnection(A, d) is null for every
\* direction d and no exit of a remaining node targets A, in every state
\* that createNode, connect, disconnect and removeNode reach.
C1_RemoveNodeCascade ==
    last.op = "removeNode" =>
        /\ \A d \in Directions : getConnection(last.id, d) = NullObject
        /\ \A n \in nodes : \A i \in 1..Len(getExits(n)) :
               getExits(n)[i].target # last.id

\* removeNode("a") emptied the exits of a node whose only exit led to "a" and
\* left a connection between the other nodes.
C1_Witness ==
    /\ last = Returned("removeNode", "a")
    /\ \E n \in DOMAIN connections : connections[n] = <<>>
    /\ ConnectionCount(connections) > 0

(***************************************************************************)
(* SpecGates: every mutating operation, with gates and zones, on two       *)
(* nodes.                                                                  *)
(***************************************************************************)
GateNodeIds == {"a", "b"}
GateInputs == {[id |-> "g1", locked |-> TRUE]}
GateUpdates == {[locked |-> FALSE]}
ZoneIds == {"z1"}
ZoneNodeIds == {"a"}
GateConnectInputs == {NoOptions} \cup {[gate |-> g] : g \in GateInputs}

NextGates ==
    /\ \/ NodeNext(GateNodeIds)
       \/ ConnectionNext(GateNodeIds, Directions, GateConnectInputs, DisconnectInputs)
       \/ GateNext(GateNodeIds, Directions, GateInputs, GateUpdates)
       \/ ZoneNext(ZoneNodeIds, ZoneIds)
    /\ Bounded(MaxConnections)

SpecGates == Init /\ [][NextGates]_vars

\* C2: there are no dangling references: after every operation among
\* createNode, removeNode, connect, disconnect, setGate, updateGate,
\* removeGate, setZone and removeZone, each stored connection has an existing
\* source node and an existing target node, that is validate() returns
\* {valid: true}.
C2_NoDanglingReferences == validate.valid

\* A node was removed from a graph that keeps a gated connection.
C2_Witness ==
    /\ last.op = "removeNode"
    /\ HasRefs(connections)
    /\ validate.valid

\* (A, D) and the connection opposite to it hold the gate object that one
\* connect(A, D, B, {gate: g}) gave to both.
MirrorOf(A, D) ==
    [from |-> Conn(connections, A, D).target, direction |-> getOppositeDirection(D)]

IsMirrored(A, D) ==
    IF HasGate(connections, A, D) /\ getOppositeDirection(D) # Null
    THEN /\ HasGate(connections, MirrorOf(A, D).from, MirrorOf(A, D).direction)
         /\ Conn(connections, MirrorOf(A, D).from, MirrorOf(A, D).direction).gate
                = Conn(connections, A, D).gate
         /\ <<MirrorOf(A, D).from, MirrorOf(A, D).direction>> # <<A, D>>
    ELSE FALSE

GateOperation(from, direction) ==
    \/ \E gate \in GateInputs : setGate(from, direction, gate)
    \/ \E updates \in GateUpdates : updateGate(from, direction, updates)
    \/ removeGate(from, direction)

\* C4: gates on a forward connection and on its mirror are independent:
\* after connect(A, D, B, {gate: g}) with default bidirectional, a setGate,
\* updateGate or removeGate on (A, D) leaves getGate(B, opposite(D))
\* unchanged, and a gate operation on (B, opposite(D)) leaves getGate(A, D)
\* unchanged.
C4_GatesIndependent ==
    [][\A A \in GateNodeIds, D \in Directions :
          IsMirrored(A, D) =>
             LET B == MirrorOf(A, D).from
                 O == MirrorOf(A, D).direction
             IN /\ GateOperation(A, D) =>
                      GateAt(connections', gateHeap', B, O) = getGate(B, O)
                /\ GateOperation(B, O) =>
                      GateAt(connections', gateHeap', A, D) = getGate(A, D)]_vars

\* What setGate, updateGate and removeGate throw at (from, direction).
GateErrors(from, direction) ==
    [setGate |-> setGateError(from, direction),
     updateGate |-> updateGateError(from, direction),
     removeGate |-> removeGateError(from, direction)]

\* C23 as stated: setGate, updateGate and removeGate each fail with
\* ValidationError when no connection exists at (from, direction), and
\* updateGate also fails with ValidationError when the connection exists
\* but has no gate.
C23_Original ==
    \A from \in GateNodeIds, direction \in Directions :
        /\ ~HasConnection(connections, from, direction)
             => GateErrors(from, direction)
                  = [setGate |-> "ValidationError", updateGate |-> "ValidationError",
                     removeGate |-> "ValidationError"]
        /\ (HasConnection(connections, from, direction)
             /\ ~HasGate(connections, from, direction))
             => GateErrors(from, direction).updateGate = "ValidationError"

\* C23, amended: setGate and updateGate fail with ValidationError when no
\* connection exists at (from, direction), and updateGate also fails with
\* ValidationError when the connection exists but has no gate; removeGate
\* never fails; setGate succeeds on every existing connection and
\* updateGate on every existing gate.
C23_GateErrors ==
    \A from \in GateNodeIds, direction \in Directions :
        GateErrors(from, direction)
          = IF ~HasConnection(connections, from, direction)
            THEN [setGate |-> "ValidationError", updateGate |-> "ValidationError",
                  removeGate |-> ""]
            ELSE IF ~HasGate(connections, from, direction)
            THEN [setGate |-> "", updateGate |-> "ValidationError", removeGate |-> ""]
            ELSE [setGate |-> "", updateGate |-> "", removeGate |-> ""]

\* After a gate operation on one side of a mirrored pair, "a" has a
\* connection NORTH without a gate and no connection SOUTH, and the
\* connection back from "b" has a gate: setGate and updateGate throw for
\* ("a", SOUTH), updateGate alone throws for ("a", NORTH), none throws for
\* ("b", SOUTH).
C23_Witness ==
    /\ HasConnection(connections, "a", "NORTH")
    /\ ~HasGate(connections, "a", "NORTH")
    /\ ~HasConnection(connections, "a", "SOUTH")
    /\ HasGate(connections, "b", "SOUTH")
    /\ GateErrors("a", "SOUTH").setGate = "ValidationError"
    /\ GateErrors("a", "NORTH").updateGate = "ValidationError"
    /\ GateErrors("a", "NORTH").setGate = ""
    /\ GateErrors("b", "SOUTH").updateGate = ""

(***************************************************************************)
(* SpecConnect: connect and disconnect between two nodes, with costs and   *)
(* gates, in a process where PORTAL was registered as its own opposite or  *)
(* was never registered.                                                   *)
(***************************************************************************)
ConnectDirections == {"NORTH", "PORTAL"}
CostConnectInputs == {NoOptions} \cup {[cost |-> 2, gate |-> g] : g \in GateInputs}
Registries ==
    {BuiltinOpposites, registerCustomDirection(BuiltinOpposites, "PORTAL", "PORTAL")}

InitConnect ==
    /\ EmptyGraph
    /\ opposites \in Registries
    /\ flagStore = Undefined

NextConnect ==
    /\ \/ \E id \in GateNodeIds : createNode(id)
       \/ ConnectionNext(GateNodeIds, ConnectDirections, CostConnectInputs,
                         DisconnectInputs)
    /\ Bounded(MaxConnections)

SpecConnect == InitConnect /\ [][NextConnect]_vars

\* connect(A, D, B, opts) left the forward connection (A, D) -> B and a
\* reverse connection (B, opposite) -> A with the same cost and the same
\* gate, recorded as non-bidirectional.
Mirrors(conns, A, D, B, opposite) ==
    IF HasConnection(conns, A, D) /\ HasConnection(conns, B, opposite)
    THEN /\ Conn(conns, A, D).target = B
         /\ Conn(conns, B, opposite).target = A
         /\ Conn(conns, B, opposite).cost = Conn(conns, A, D).cost
         /\ Conn(conns, B, opposite).gate = Conn(conns, A, D).gate
         /\ ~Conn(conns, B, opposite).bidirectional
    ELSE FALSE

DefaultConnect(A, D, B) ==
    /\ A \in nodes /\ B \in nodes
    /\ last'.op = "connect"
    /\ HasConnection(connections', A, D)
    /\ Conn(connections', A, D).target = B
    /\ \E opts \in {o \in CostConnectInputs : ~Has(o, "bidirectional")} :
          connect(A, D, B, opts)

\* C3 as stated: connect(A, D, B) with default options, when D has an
\* opposite and no connection exists at (B, opposite(D)), leaves the forward
\* connection (A, D) -> B and a reverse connection (B, opposite(D)) -> A with
\* the same cost and gate, recorded as non-bidirectional.
C3_Original ==
    [][\A A \in GateNodeIds, B \in GateNodeIds, D \in ConnectDirections :
          (/\ getOppositeDirection(D) # Null
           /\ ~HasConnection(connections, B, getOppositeDirection(D))
           /\ DefaultConnect(A, D, B))
          => Mirrors(connections', A, D, B, getOppositeDirection(D))]_vars

\* C3: connect(A, D, B) with default options, when D has an opposite, no
\* connection exists at (B, opposite(D)) and (B, opposite(D)) is not (A, D)
\* itself, leaves the forward connection (A, D) -> B and a reverse
\* connection (B, opposite(D)) -> A with the same cost and gate, recorded as
\* non-bidirectional.
C3_ConnectMirrors ==
    [][\A A \in GateNodeIds, B \in GateNodeIds, D \in ConnectDirections :
          (/\ getOppositeDirection(D) # Null
           /\ ~HasConnection(connections, B, getOppositeDirection(D))
           /\ <<B, getOppositeDirection(D)>> # <<A, D>>
           /\ DefaultConnect(A, D, B))
          => Mirrors(connections', A, D, B, getOppositeDirection(D))]_vars

\* connect("a", "NORTH", "b", {cost: 2, gate: g}) has just created both
\* connections.
C3_Witness ==
    /\ last.op = "connect"
    /\ Mirrors(connections, "a", "NORTH", "b", "SOUTH")
    /\ Conn(connections, "a", "NORTH").cost = 2
    /\ Conn(connections, "a", "NORTH").gate # NoGate
    /\ Conn(connections, "a", "NORTH").bidirectional

(***************************************************************************)
(* SpecTraverse: canTraverse on the connection from "a" to "b", for every  *)
(* gate, context and flag store of the sets below.                         *)
(***************************************************************************)
TraverseGates ==
    {hidden @@ locked @@ keyId @@ condition @@ blockedMessage @@ [id |-> "g1"] :
        hidden \in {NoOptions, [hidden |-> TRUE]},
        locked \in {NoOptions, [locked |-> TRUE]},
        keyId \in {NoOptions, [keyId |-> ""], [keyId |-> "key"]},
        condition \in {NoOptions, [condition |-> "c1"]},
        blockedMessage \in {NoOptions, [blockedMessage |-> "sealed"]}}

FlagStores == {[check |-> {}], [check |-> {"c1"}]}

TraverseContexts ==
    {inventory @@ discovered @@ store :
        inventory \in {NoOptions, [inventory |-> <<>>], [inventory |-> <<"key">>],
                       [inventory |-> <<"">>]},
        discovered \in {NoOptions, [discovered |-> <<"g1">>]},
        store \in {NoOptions} \cup {[flagStore |-> f] : f \in FlagStores}}

TraverseConnectInputs ==
    {[bidirectional |-> FALSE]}
    \cup {[bidirectional |-> FALSE, gate |-> g] : g \in TraverseGates}

\* "x" is the id of no node.
TraverseSources == {"a", "x"}

InitTraverse ==
    /\ nodes = {"a", "b"}
    /\ zones = [n \in NodeIds |-> NoZone]
    /\ connections = [n \in {} |-> <<>>]
    /\ gateHeap = [r \in HeapRefs |-> Free]
    /\ opposites = BuiltinOpposites
    /\ flagStore \in {Undefined} \cup FlagStores
    /\ traversal = NoTraversal
    /\ call = NoCall
    /\ last = Returned("createNode", "")
    /\ listeners = NoListeners
    /\ tiles = NoTiles
    /\ tileIndex = NoIndex
    /\ customCanTraverse = Undefined
    /\ closures = NoClosures
    /\ elsewhere = NoCall
    /\ snapshot = Undefined
    /\ delivered = <<>>

NextTraverse ==
    \/ \E from \in TraverseSources, opts \in TraverseConnectInputs :
          connect(from, "NORTH", "b", opts)
    \/ \E context \in TraverseContexts : CanTraverse("a", "NORTH", context)

SpecTraverse == InitTraverse /\ [][NextTraverse]_vars

\* The members of context.<key>, none when the list is absent.
Members(context, key) ==
    IF Has(context, key) THEN {context[key][i] : i \in 1..Len(context[key])} ELSE {}

\* gate.<key> is set and true
IsSet(gate, key) == IF Has(gate, key) THEN gate[key] ELSE FALSE

\* The store that decides a condition is there and answers true.
ConditionHolds(gate, context) ==
    IF Has(context, "flagStore") THEN gate.condition \in context.flagStore.check
    ELSE IF flagStore # Undefined THEN gate.condition \in flagStore.check
    ELSE FALSE

\* The decision order of canTraverse, HasKey(gate, context) being what opens
\* a locked gate.
DecisionOrder(HasKey(_, _)) ==
    LET connection == getConnection(traversal.from, traversal.direction)
        context == traversal.context
        gate == connection.gate
        result == traversal.result
    IN IF connection = NullObject
       THEN result = [allowed |-> FALSE, reason |-> "no connection"]
       ELSE IF gate = NullObject THEN result = [allowed |-> TRUE]
       ELSE IF IsSet(gate, "hidden") /\ gate.id \notin Members(context, "discovered")
       THEN result = [allowed |-> FALSE, reason |-> "hidden", gateId |-> gate.id]
       ELSE IF IsSet(gate, "locked")
       THEN IF HasKey(gate, context) THEN result = [allowed |-> TRUE]
            ELSE result = [allowed |-> FALSE, reason |-> "locked", gateId |-> gate.id]
       ELSE IF Has(gate, "condition") /\ ~ConditionHolds(gate, context)
       THEN result = [allowed |-> FALSE,
                      reason |-> IF Has(gate, "blockedMessage")
                                 THEN gate.blockedMessage ELSE "blocked",
                      gateId |-> gate.id]
       ELSE result = [allowed |-> TRUE]

KeyInInventory(gate, context) ==
    IF Has(gate, "keyId") THEN gate.keyId \in Members(context, "inventory") ELSE FALSE

NonEmptyKeyInInventory(gate, context) ==
    IF Has(gate, "keyId")
    THEN gate.keyId # "" /\ gate.keyId \in Members(context, "inventory")
    ELSE FALSE

\* C5 as stated: canTraverse returns the first matching branch of: no
\* connection; connection without gate -> allowed; hidden and not discovered
\* -> hidden; locked -> allowed iff gate.keyId is in ctx.inventory, else
\* locked; condition, and no store or the chosen store answers false ->
\* blocked; otherwise allowed.
C5_Original ==
    traversal.op = "canTraverse" => DecisionOrder(KeyInInventory)

\* C5: canTraverse returns the first matching branch of that order, a locked
\* gate being allowed iff gate.keyId is a non-empty string that is in
\* ctx.inventory.
C5_DecisionOrder ==
    traversal.op = "canTraverse" => DecisionOrder(NonEmptyKeyInInventory)

\* A hidden, locked gate that was discovered, whose key "" is in the
\* inventory, stays locked.
C5_Witness ==
    /\ traversal.op = "canTraverse"
    /\ getGate("a", "NORTH") # NullObject
    /\ IsSet(getGate("a", "NORTH"), "hidden")
    /\ IsSet(getGate("a", "NORTH"), "locked")
    /\ KeyInInventory(getGate("a", "NORTH"), traversal.context)
    /\ traversal.result = Denied("locked", "g1")

\* C6: multiple gate properties combine: canTraverse returns allowed: true
\* only if every restriction present on the gate is satisfied: a hidden gate
\* has its id in context.discovered, a locked gate has its keyId in
\* context.inventory, and a gate with a condition has an available flag
\* store whose check(condition) returns true.
C6_PropertiesCombine ==
    (/\ traversal.op = "canTraverse"
     /\ traversal.result.allowed
     /\ getGate(traversal.from, traversal.direction) # NullObject)
    => LET gate == getGate(traversal.from, traversal.direction)
           context == traversal.context
       IN /\ IsSet(gate, "hidden") => gate.id \in Members(context, "discovered")
          /\ IsSet(gate, "locked") => KeyInInventory(gate, context)
          /\ Has(gate, "condition") => ConditionHolds(gate, context)

(***************************************************************************)
(* SpecPath: findPath and getDistance from "a", on the graphs that connect *)
(* builds over four nodes from the edges below, with costs that may be     *)
(* negative and with a locked gate between "b" and "c".                    *)
(***************************************************************************)
MaxLength == 3

PathNodeIds == {"a", "b", "c", "d"}
PathCosts == {0 - 1, 0, 1}
PathEdges ==
    {<<"a", "NORTH", "b">>, <<"a", "SOUTH", "c">>, <<"b", "NORTH", "c">>,
     <<"c", "NORTH", "d">>, <<"c", "SOUTH", "a">>}
PathGates == {[id |-> "g1", locked |-> TRUE, keyId |-> "key"]}
PathGatedEdges == {<<"b", "NORTH", "c">>}
PathConnectInputs ==
    {<<edge, [bidirectional |-> FALSE, cost |-> c]>> :
        edge \in PathEdges, c \in PathCosts}
    \cup {<<edge, [bidirectional |-> FALSE, gate |-> g]>> :
        edge \in PathGatedEdges, g \in PathGates}
PathOptions ==
    {maxLength @@ context :
        maxLength \in {NoOptions, [maxLength |-> MaxLength]},
        context \in {NoOptions, [context |-> [inventory |-> <<"key">>]]}}

\* "x" is the id of no node.
PathQueries ==
    {<<"a", "d", opts>> : opts \in PathOptions}
    \cup {<<"a", "a", NoOptions>>, <<"x", "d", NoOptions>>}

InitPath ==
    /\ nodes = PathNodeIds
    /\ zones = [n \in NodeIds |-> NoZone]
    /\ connections = [n \in {} |-> <<>>]
    /\ gateHeap = [r \in HeapRefs |-> Free]
    /\ opposites = BuiltinOpposites
    /\ flagStore = Undefined
    /\ traversal = NoTraversal
    /\ call = NoCall
    /\ last = Returned("createNode", "")
    /\ listeners = NoListeners
    /\ tiles = NoTiles
    /\ tileIndex = NoIndex
    /\ customCanTraverse = Undefined
    /\ closures = NoClosures
    /\ elsewhere = NoCall
    /\ snapshot = Undefined
    /\ delivered = <<>>

ReachableQueries ==
    {<<from, context>> :
        from \in {"a", "x"},
        context \in {NoOptions, [context |-> [inventory |-> <<"key">>]]}}

NextPath ==
    \/ /\ \E input \in PathConnectInputs :
             connect(input[1][1], input[1][2], input[1][3], input[2])
       /\ Bounded(MaxPathConnections)
    \/ \E query \in PathQueries : FindPath(query[1], query[2], query[3])
    \/ \E query \in PathQueries : GetDistance(query[1], query[2], query[3])
    \/ \E query \in ReachableQueries : GetReachable(query[1], query[2])

SpecPath == InitPath /\ [][NextPath]_vars

\* The costs of the connections from u to v that canTraverse allows.
StepCosts(u, v, context) ==
    {getExits(u)[i].cost :
        i \in {j \in 1..Len(getExits(u)) :
                 /\ getExits(u)[j].target = v
                 /\ canTraverse(u, getExits(u)[j].direction, context).allowed}}

Minimum(S) == CHOOSE x \in S : \A y \in S : x <= y

\* The lists of n different nodes from from to to in which each node is
\* joined to the next by a connection that canTraverse allows.
RoutesOfLength(n, from, to, context) ==
    {p \in [1..n -> nodes] :
        /\ p[1] = from
        /\ p[n] = to
        /\ \A i \in 1..n, j \in 1..n : i # j => p[i] # p[j]
        /\ \A i \in 1..(n - 1) : StepCosts(p[i], p[i + 1], context) # {}}

Routes(from, to, context, max) ==
    UNION {RoutesOfLength(n, from, to, context) : n \in 1..max}

\* The sum of the costs of the connections along p, the cheapest allowed
\* connection being taken between two nodes.
RECURSIVE CostFrom(_, _, _)
CostFrom(p, i, context) ==
    IF i >= Len(p) THEN 0
    ELSE Minimum(StepCosts(p[i], p[i + 1], context)) + CostFrom(p, i + 1, context)

RouteCost(p, context) == CostFrom(p, 1, context)

NonNegativeCosts ==
    \A n \in DOMAIN connections : \A i \in 1..Len(connections[n]) :
        connections[n][i].cost >= 0

CallContext == OrElse(call.opts, "context", NoOptions)

\* C7: every non-null result of findPath(from, to, {maxLength, context})
\* starts with from, ends with to, contains at most maxLength nodes, and
\* each consecutive pair is joined by a connection that canTraverse allows.
C7_PathValid ==
    (call.op = "findPath" /\ call.result.kind = "path")
    => LET p == call.result.path
       IN /\ p[1] = call.from
          /\ p[Len(p)] = call.to
          /\ Has(call.opts, "maxLength") => Len(p) <= call.opts.maxLength
          /\ \A i \in 1..(Len(p) - 1) : StepCosts(p[i], p[i + 1], CallContext) # {}

\* C8: for non-negative costs and no maxLength, findPath returns a path
\* whose total cost is minimal among the paths from from to to that use only
\* connections canTraverse allows, and getDistance returns that minimal
\* cost.
C8_MinimalCost ==
    (/\ call.op \in {"findPath", "getDistance"}
     /\ ~Has(call.opts, "maxLength")
     /\ NonNegativeCosts
     /\ Routes(call.from, call.to, CallContext, Cardinality(nodes)) # {})
    => LET routes == Routes(call.from, call.to, CallContext, Cardinality(nodes))
           least == Minimum({RouteCost(p, CallContext) : p \in routes})
       IN IF call.op = "findPath"
          THEN /\ call.result.kind = "path"
               /\ call.result.path \in routes
               /\ RouteCost(call.result.path, CallContext) = least
          ELSE call.result = [kind |-> "number", value |-> least]

\* findPath returned the path of four nodes, which is cheaper than the path
\* of three nodes through the connection from "a" to "c".
C8_Witness ==
    /\ call.op = "findPath"
    /\ ~Has(call.opts, "maxLength")
    /\ NonNegativeCosts
    /\ call.result = [kind |-> "path", path |-> <<"a", "b", "c", "d">>]
    /\ <<"a", "c", "d">> \in Routes("a", "d", CallContext, 3)
    /\ RouteCost(<<"a", "c", "d">>, CallContext) > RouteCost(<<"a", "b", "c", "d">>, CallContext)

\* C9: findPath(from, to, {maxLength: k, context}) returns null only if no
\* path satisfies the constraints: whenever a path from from to to exists
\* that uses only connections canTraverse allows and has at most k nodes,
\* the result is non-null.
C9_NullOnlyIfNoPath ==
    (/\ call.op = "findPath"
     /\ Has(call.opts, "maxLength")
     /\ Routes(call.from, call.to, CallContext, call.opts.maxLength) # {})
    => call.result.kind # "null"

\* C10: getDistance agrees with findPath: for the same arguments it is
\* Infinity exactly when findPath is null, 0 when from = to, and otherwise
\* the sum of the costs of the connections along the path findPath returns.
C10_DistanceAgrees ==
    call.op = "getDistance"
    => LET found == findPath(call.from, call.to, call.opts)
       IN /\ call.result.kind = "Infinity" <=> found.kind = "null"
          /\ call.from = call.to => call.result = [kind |-> "number", value |-> 0]
          /\ (call.result.kind = "number" /\ found.kind = "path")
                => call.result.value = RouteCost(found.path, CallContext)

\* C11: for an existing node from and a context c, getReachable(from,
\* {context: c}) without maxDistance returns exactly the nodes n for which
\* findPath(from, n, {context: c}) is non-null, each once and from included.
C11_ReachableIsFindPath ==
    (call.op = "getReachable" /\ ~Has(call.opts, "maxDistance"))
    => /\ \A i, j \in 1..Len(call.result) :
             call.result[i] = call.result[j] => i = j
       /\ Includes(call.result, call.from)
       /\ \A n \in PathNodeIds :
             Includes(call.result, n)
             <=> findPath(call.from, n, [context |-> CallContext]).kind = "path"

\* C34: findPath and getDistance terminate on every finite graph built
\* through the public operations, with cycles and with whatever costs, zero
\* or negative, connect accepted: no call ends in a loop that never
\* returns.  (getReachable and getSubgraphs keep a visited set that only
\* grows and have no result of that kind in the model.)
C34_SearchTerminates ==
    call.op \in {"findPath", "getDistance"} => call.result.kind # "diverges"

(***************************************************************************)
(* SpecSave: the graph under its operations on nodes, connections and      *)
(* zones and under deserialize, which is given the snapshot serialize()    *)
(* returns for the graph as it is, or one of the hand-written snapshots.   *)
(***************************************************************************)
SaveNodeIds == {"a", "b"}
SaveZones == {"z1", ""}
SaveConnectInputs ==
    {NoOptions, [bidirectional |-> FALSE], [gate |-> [id |-> "g1", locked |-> TRUE]]}

NoObjects == [r \in HeapRefs |-> Free]

\* {}: a snapshot without nodes
EmptySnapshot == NoOptions

\* features.test.ts:506-527: a snapshot whose connection leads to a node
\* that is not in it; the entry carries no cost
DanglingTarget ==
    [nodes |-> [id \in {"a", "b"} |-> [id |-> id]],
     connections |->
        [from \in {"a"} |->
            <<[target |-> "b", direction |-> "NORTH", gate |-> NoGate, cost |-> 1],
              [target |-> "missing", direction |-> "SOUTH", gate |-> NoGate]>>],
     objects |-> NoObjects]

\* A snapshot with connections of a source that is not in it.
DanglingSource ==
    [nodes |-> [id \in {"a"} |-> [id |-> id, zone |-> "z1"]],
     connections |->
        [from \in {"c"} |->
            <<[target |-> "a", direction |-> "NORTH", gate |-> NoGate, cost |-> 1],
              [target |-> "missing", direction |-> "SOUTH", gate |-> NoGate, cost |-> 1]>>],
     objects |-> NoObjects]

\* { nodes: { a: {...} } }: a snapshot with a node and without connections
NodesOnly == [nodes |-> [id \in {"a"} |-> [id |-> id]], objects |-> NoObjects]

SaveSnapshots == {EmptySnapshot, DanglingTarget, DanglingSource, NodesOnly}

NextSave ==
    /\ \/ NodeNext(SaveNodeIds)
       \/ ConnectionNext(SaveNodeIds, Directions, SaveConnectInputs, DisconnectInputs)
       \/ ZoneNext({"a"}, SaveZones)
       \/ \E data \in SaveSnapshots \cup {serialize} : deserialize(data)
    /\ Bounded(MaxConnections)

SpecSave == Init /\ [][NextSave]_vars

\* What a snapshot says, whatever the order of its entries: the node
\* entries and, per source key, the connection entries with their gates.
Structure(data) ==
    [nodes |-> data.nodes,
     connections |->
        [from \in DOMAIN data.connections |->
            {[target |-> data.connections[from][i].target,
              direction |-> data.connections[from][i].direction,
              gate |-> GateOf(data.objects, data.connections[from][i]),
              cost |-> data.connections[from][i].cost] :
                i \in 1..Len(data.connections[from])}]]

\* graph.deserialize(graph.serialize())
RoundTrip == last'.op = "deserialize" /\ deserialize(serialize)

\* C12: deserializing serialize(G) and serializing again yields a structure
\* identical to serialize(G): the same node entries and the same connection
\* entries (source keys, directions, target, gate, cost).
C12_RoundTripIdentical ==
    [][RoundTrip => Structure(serialize') = Structure(serialize)]_vars

\* What getConnection answers for every node and direction, in the tables
\* conns and heap.
Answers(conns, heap) ==
    [n \in SaveNodeIds, d \in Directions |->
        IF HasConnection(conns, n, d)
        THEN [target |-> Conn(conns, n, d).target,
              gate |-> GateOf(heap, Conn(conns, n, d)),
              cost |-> Conn(conns, n, d).cost]
        ELSE NullObject]

\* C13: the graph restored with deserialize(serialize(G)) is identical to G:
\* disconnect with default options, applied to a connection of the restored
\* graph and to the same connection of G, leaves the same connections.
C13_RestoredBehavesAlike ==
    [][RoundTrip =>
        \A from \in SaveNodeIds, direction \in Directions :
            HasConnection(connections, from, direction)
            => /\ HasConnection(connections', from, direction)
               /\ Answers(Disconnected(connections', from, direction, NoOptions),
                          gateHeap')
                  = Answers(Disconnected(connections, from, direction, NoOptions),
                            gateHeap)]_vars

\* C14: a call that throws a ValidationError leaves the node set, the
\* connections, the gates and the zones as they were.  createNode,
\* removeNode, connect, disconnect, setGate, updateGate and setZone throw
\* through Throw; the call looked at here is deserialize of a snapshot
\* without nodes.
C14_FailingCallsAtomic ==
    [][(/\ last' = Returned("deserialize", "ValidationError")
        /\ \E data \in SaveSnapshots : ~Has(data, "nodes") /\ deserialize(data))
       => UNCHANGED <<nodes, zones, connections, gateHeap>>]_vars

\* C21: deserialize(data) fails with ValidationError only if the top-level
\* nodes field is missing: data with a well-formed nodes field loads without
\* raising, and every error deserialize raises is a ValidationError.
C21_OnlyValidationError ==
    [][\A data \in SaveSnapshots :
          (last'.op = "deserialize" /\ deserialize(data))
          => /\ last'.id \in {"", "ValidationError"}
             /\ Has(data, "nodes") => last'.id = ""]_vars

\* The stored connections whose target is the id of no node, and the
\* sources of stored connections that are the id of no node.
DanglingTargets ==
    {p \in AllConnections(connections) : connections[p[1]][p[2]].target \notin nodes}

MissingSources == {p[1] : p \in AllConnections(connections)} \ nodes

\* The places of errors that hold the error e.
Places(errors, e) == {i \in 1..Len(errors) : errors[i] = e}

MaxFrameConnections == 2

FrameConnectInputs ==
    {NoOptions, [bidirectional |-> FALSE]}
    \cup {[cost |-> 2, gate |-> g] : g \in GateInputs}
DisconnectDirections == ConnectDirections \cup {"SOUTH"}

InitFrame ==
    /\ nodes = GateNodeIds
    /\ zones = [n \in NodeIds |-> NoZone]
    /\ connections = [n \in {} |-> <<>>]
    /\ gateHeap = [r \in HeapRefs |-> Free]
    /\ opposites = registerCustomDirection(BuiltinOpposites, "PORTAL", "PORTAL")
    /\ flagStore = Undefined
    /\ traversal = NoTraversal
    /\ call = NoCall
    /\ last = Returned("createNode", "")
    /\ listeners = NoListeners
    /\ tiles = NoTiles
    /\ tileIndex = NoIndex
    /\ customCanTraverse = Undefined
    /\ closures = NoClosures
    /\ elsewhere = NoCall
    /\ snapshot = Undefined
    /\ delivered = <<>>

\* "x" is the id of no node.
FrameConnectCalls ==
    (GateNodeIds \X ConnectDirections \X GateNodeIds \X FrameConnectInputs)
    \cup {<<"x", "NORTH", "a", NoOptions>>}
FrameDisconnectCalls ==
    (GateNodeIds \X DisconnectDirections \X DisconnectInputs)
    \cup {<<"x", "NORTH", NoOptions>>}

NextFrame ==
    /\ \/ \E c \in FrameConnectCalls : connect(c[1], c[2], c[3], c[4])
       \/ \E c \in FrameDisconnectCalls : disconnect(c[1], c[2], c[3])
    /\ Bounded(MaxFrameConnections)

SpecFrame == InitFrame /\ [][NextFrame]_vars

\* What is stored at (n, d) in the tables conns and heap: the connection
\* with the content of its gate, or null.
Stored(conns, heap, n, d) ==
    IF HasConnection(conns, n, d)
    THEN [target |-> Conn(conns, n, d).target, cost |-> Conn(conns, n, d).cost,
          bidirectional |-> Conn(conns, n, d).bidirectional,
          gate |-> GateOf(heap, Conn(conns, n, d))]
    ELSE NullObject

\* The step is a call disconnect(from, direction, opts) that found a
\* connection at (from, direction).
DisconnectCall(from, direction, opts) ==
    /\ last'.op = "disconnect"
    /\ HasConnection(connections, from, direction)
    /\ ~HasConnection(connections', from, direction)
    /\ disconnect(from, direction, opts)

\* C15: disconnect(from, dir, opts) on an existing connection (from, dir) ->
\* T removes it and, when the resolved flag (opts.bidirectional if given,
\* otherwise the flag recorded with the connection) is true and dir has an
\* opposite, leaves no connection at (T, opposite(dir)); every other
\* connection stays as it was, so with a false flag, as recorded for a
\* mirror connection, only (from, dir) is removed.
C15_DisconnectResolvedFlag ==
    [][\A from \in GateNodeIds, direction \in DisconnectDirections,
          opts \in DisconnectInputs :
          DisconnectCall(from, direction, opts)
          => LET T == Conn(connections, from, direction).target
                 flag == OrElse(opts, "bidirectional",
                                Conn(connections, from, direction).bidirectional)
                 opposite == getOppositeDirection(direction)
             IN \A n \in GateNodeIds, d \in DisconnectDirections :
                   IF <<n, d>> = <<from, direction>>
                   THEN ~HasConnection(connections', n, d)
                   ELSE IF flag /\ opposite # Null /\ <<n, d>> = <<T, opposite>>
                   THEN ~HasConnection(connections', n, d)
                   ELSE Stored(connections', gateHeap', n, d)
                        = Stored(connections, gateHeap, n, d)]_vars

\* disconnect("b", "SOUTH") with default options removed the reverse
\* connection, which is recorded as non-bidirectional, and the forward
\* connection from "a" is still there.
C15_Witness ==
    /\ last.op = "disconnect"
    /\ "b" \in DOMAIN connections
    /\ connections["b"] = <<>>
    /\ HasConnection(connections, "a", "NORTH")
    /\ Conn(connections, "a", "NORTH").target = "b"
    /\ Conn(connections, "a", "NORTH").bidirectional
    /\ ConnectionCount(connections) = 1

\* The step is a call connect(from, direction, to, opts) that did not throw.
ConnectCall(from, direction, to, opts) ==
    /\ last'.op = "connect"
    /\ HasConnection(connections', from, direction)
    /\ Conn(connections', from, direction).target = to
    /\ Conn(connections', from, direction).cost = OrElse(opts, "cost", 1)
    /\ Conn(connections', from, direction).bidirectional
          = OrElse(opts, "bidirectional", TRUE)
    /\ connect(from, direction, to, opts)

\* C16: connect(from, dir, to, opts) changes no connection other than
\* (from, dir) and the mirror it creates: a connection that exists at another
\* place, the one at (to, opposite(dir)) included, keeps its target, cost,
\* flag and gate, and a connection appears at another place only at (to,
\* opposite(dir)), only when bidirectional is true and opposite(dir) exists.
C16_ConnectFrame ==
    [][\A from \in GateNodeIds, direction \in ConnectDirections,
          to \in GateNodeIds, opts \in FrameConnectInputs :
          ConnectCall(from, direction, to, opts)
          => \A n \in GateNodeIds, d \in DisconnectDirections :
                <<n, d>> # <<from, direction>>
                => IF HasConnection(connections, n, d)
                   THEN Stored(connections', gateHeap', n, d)
                        = Stored(connections, gateHeap, n, d)
                   ELSE HasConnection(connections', n, d)
                        => /\ OrElse(opts, "bidirectional", TRUE)
                           /\ getOppositeDirection(direction) # Null
                           /\ <<n, d>> = <<to, getOppositeDirection(direction)>>]_vars

\* connect("a", "NORTH", "b", {cost: 2, gate}) wrote the forward connection
\* over the one that was there and left the reverse connection, which
\* existed, with its cost 1 and without a gate.
C16_Witness ==
    /\ last.op = "connect"
    /\ HasConnection(connections, "a", "NORTH")
    /\ Conn(connections, "a", "NORTH").cost = 2
    /\ Conn(connections, "a", "NORTH").gate # NoGate
    /\ HasConnection(connections, "b", "SOUTH")
    /\ Conn(connections, "b", "SOUTH").target = "a"
    /\ Conn(connections, "b", "SOUTH").cost = 1
    /\ Conn(connections, "b", "SOUTH").gate = NoGate

\* C32: disconnect(from, dir) removes at most the connection (from, dir) and
\* its own mirror: a connection that is stored at another place stays as it
\* was unless it is at (target, opposite(dir)) and its target is from; one
\* stored there that leads to a different node is left in place.
C32_DisconnectOwnMirror ==
    [][\A from \in GateNodeIds, direction \in DisconnectDirections,
          opts \in DisconnectInputs :
          DisconnectCall(from, direction, opts)
          => LET T == Conn(connections, from, direction).target
                 opposite == getOppositeDirection(direction)
             IN \A n \in GateNodeIds, d \in DisconnectDirections :
                   (/\ <<n, d>> # <<from, direction>>
                    /\ HasConnection(connections, n, d)
                    /\ ~(/\ <<n, d>> = <<T, opposite>>
                         /\ Conn(connections, n, d).target = from))
                   => Stored(connections', gateHeap', n, d)
                      = Stored(connections, gateHeap, n, d)]_vars

(***************************************************************************)
(* SpecEvents: the mutating operations on a graph with listeners.  The     *)
(* callbacks are registered on the new graph: "f" for every event but      *)
(* connectionCreated, and "f" and "g", in either order, for                *)
(* connectionCreated.  The graph is changed once both are registered.      *)
(***************************************************************************)
MaxEventConnections == 2

EventNodeIds == {"a", "b"}
EventConnectInputs == {NoOptions, [bidirectional |-> FALSE]}
EventCallbacks == {"f", "g"}
\* The connection the gate operations are called on.
EventGatePlaces == {<<"a", "NORTH">>}

InitEvents ==
    /\ EmptyGraph
    /\ opposites = BuiltinOpposites
    /\ flagStore = Undefined

Subscribed ==
    [event \in EventNames |->
        IF event = "connectionCreated" THEN <<>> ELSE <<"f">>]

\* graph.on(event, f) for every event but connectionCreated
Subscribe ==
    /\ listeners = NoListeners
    /\ listeners' = Subscribed
    /\ closures' = [p \in (EventNames \ {"connectionCreated"}) \X {"f"} |-> 1]
    /\ delivered' = <<>>
    /\ UNCHANGED <<tiles, tileIndex, customCanTraverse, elsewhere, snapshot>>
    /\ UNCHANGED <<nodes, zones, connections, gateHeap, opposites, flagStore,
                   traversal, call, last>>

\* The calls that register and remove callbacks, on the new graph; a
\* callback is registered again only after its registration was removed.
Registering ==
    /\ last.op = "createSpatialGraph"
    /\ \/ Subscribe
       \/ /\ listeners # NoListeners
          /\ \/ \E callback \in EventCallbacks :
                   /\ Closures(closures, "connectionCreated", callback) = 0
                   /\ on("connectionCreated", callback)
             \/ \E callback \in EventCallbacks :
                   unsubscribe("connectionCreated", callback)

\* The calls that change the graph.
Operating ==
    /\ Len(listeners["connectionCreated"]) = Cardinality(EventCallbacks)
    /\ \/ NodeNext(EventNodeIds)
       \/ ConnectionNext(EventNodeIds, Directions, EventConnectInputs, {NoOptions})
       \/ \E place \in EventGatePlaces :
             GateNext({place[1]}, {place[2]}, GateInputs, GateUpdates)
       \/ \E data \in {serialize, EmptySnapshot} : deserialize(data)
    /\ Bounded(MaxEventConnections)

NextEvents == Registering \/ Operating

SpecEvents == InitEvents /\ [][NextEvents]_vars

\* The entries of delivered' that say that callback ran for the event
\* connectionRemoved(from, direction).
RemovalsDelivered(callback, from, direction) ==
    {i \in 1..Len(delivered') :
        /\ delivered'[i].callback = callback
        /\ delivered'[i].event = "connectionRemoved"
        /\ delivered'[i].from = from
        /\ delivered'[i].direction = direction}

\* C17: every operation that makes an existing connection (from, direction)
\* disappear from the graph (disconnect, the cascade of removeNode, the
\* clearing of deserialize) emits one connectionRemoved(from, direction) for
\* that connection: a callback of connectionRemoved runs once for it.
C17_RemovalAnnounced ==
    [][\A from \in EventNodeIds, direction \in Directions :
          (/\ HasConnection(connections, from, direction)
           /\ ~HasConnection(connections', from, direction))
          => \A i \in 1..Len(listeners["connectionRemoved"]) :
                Cardinality(RemovalsDelivered(listeners["connectionRemoved"][i],
                                              from, direction)) = 1]_vars

\* The events connectionCreated that callback was called with during the
\* step, in order: <<from, direction, to>>.
RECURSIVE CreatedFrom(_, _)
CreatedFrom(callback, i) ==
    IF i > Len(delivered') THEN <<>>
    ELSE (IF /\ delivered'[i].callback = callback
             /\ delivered'[i].event = "connectionCreated"
          THEN <<<<delivered'[i].from, delivered'[i].direction, delivered'[i].arg.to>>>>
          ELSE <<>>)
         \o CreatedFrom(callback, i + 1)

\* The step is a call connect(from, direction, to, opts) that did not
\* throw, on a graph with a callback of connectionCreated.
ListenedConnect(from, direction, to, opts) ==
    /\ last'.op = "connect"
    /\ listeners["connectionCreated"] # <<>>
    /\ HasConnection(connections', from, direction)
    /\ Conn(connections', from, direction).target = to
    /\ Conn(connections', from, direction).bidirectional
          = OrElse(opts, "bidirectional", TRUE)
    /\ connect(from, direction, to, opts)

\* The call wrote a mirror connection: a connection is at (to, opposite)
\* that was not there before and that is not the forward one.
MirrorWritten(from, direction, to) ==
    /\ getOppositeDirection(direction) # Null
    /\ <<to, getOppositeDirection(direction)>> # <<from, direction>>
    /\ ~HasConnection(connections, to, getOppositeDirection(direction))
    /\ HasConnection(connections', to, getOppositeDirection(direction))

\* C18: one connect call emits connectionCreated exactly once per edge it
\* writes: once with (from, dir, to) for the forward edge, then once with
\* (to, opposite(dir), from) if and only if the mirror edge is created.
C18_OneEventPerEdge ==
    [][\A from \in EventNodeIds, direction \in Directions, to \in EventNodeIds,
          opts \in EventConnectInputs :
          ListenedConnect(from, direction, to, opts)
          => \A i \in 1..Len(listeners["connectionCreated"]) :
                CreatedFrom(listeners["connectionCreated"][i], 1)
                = IF MirrorWritten(from, direction, to)
                  THEN <<<<from, direction, to>>,
                         <<to, getOppositeDirection(direction), from>>>>
                  ELSE <<<<from, direction, to>>>>]_vars

\* connect("a", "NORTH", "b") created both connections and "f" and "g" were
\* called for each of them.
C18_Witness ==
    /\ last.op = "connect"
    /\ listeners["connectionCreated"] = <<"f", "g">>
    /\ Len(delivered) = 4
    /\ delivered[1].from = "a" /\ delivered[1].direction = "NORTH"
    /\ delivered[1].arg = [to |-> "b"]
    /\ delivered[3].from = "b" /\ delivered[3].direction = "SOUTH"
    /\ delivered[3].arg = [to |-> "a"]

\* The place of callback among the callbacks of its event.
Registration(callback, event) ==
    CHOOSE k \in 1..Len(listeners[event]) : listeners[event][k] = callback

\* What the graph shows inside a callback, given what the event announces.
ShowsChange(run) ==
    IF run.event = "nodeCreated" THEN run.seen.hasNode
    ELSE IF run.event = "nodeRemoved" THEN ~run.seen.hasNode
    ELSE IF run.event = "connectionCreated" THEN run.seen.target = run.arg.to
    ELSE IF run.event = "connectionRemoved" THEN run.seen.target = Null
    ELSE run.seen.gate = run.arg.gate

\* C19: events are delivered synchronously, after the mutation they announce
\* and in registration order: when the mutating call has returned, every
\* callback registered for an event it emitted has run for it, a callback
\* registered earlier ran just before the one registered after it, and what
\* each callback saw of the graph shows the announced change.
C19_DeliveryOrder ==
    \A i \in 1..Len(delivered) :
        LET run == delivered[i]
            callbacks == listeners[run.event]
        IN /\ \E k \in 1..Len(callbacks) : callbacks[k] = run.callback
           /\ LET k == Registration(run.callback, run.event)
              IN /\ k > 1 => /\ i > 1
                             /\ delivered[i - 1] = [run EXCEPT !.callback = callbacks[k - 1]]
                 /\ k < Len(callbacks)
                       => /\ i < Len(delivered)
                          /\ delivered[i + 1] = [run EXCEPT !.callback = callbacks[k + 1]]
           /\ ShowsChange(run)

\* "g" was registered before "f"; connect("a", "NORTH", "b") called "g" and
\* then "f" for the forward connection, before the reverse one was there,
\* and then "g" and "f" for the reverse one.
C19_Witness ==
    /\ last.op = "connect"
    /\ listeners["connectionCreated"] = <<"g", "f">>
    /\ Len(delivered) = 4
    /\ delivered[1].callback = "g" /\ delivered[2].callback = "f"
    /\ delivered[1].from = "a" /\ delivered[1].seen = [target |-> "b"]
    /\ delivered[3].callback = "g" /\ delivered[4].callback = "f"
    /\ delivered[3].from = "b" /\ delivered[3].seen = [target |-> "a"]

(***************************************************************************)
(* SpecDirections: registerDirection on the process-wide opposites Map,    *)
(* called with built-in and with custom names, and connect with default    *)
(* options between the nodes "a" and "b", which reads the Map for the      *)
(* reverse connection.                                                     *)
(***************************************************************************)
MaxDirectionConnections == 2

DirectionNames == {"NORTH", "SOUTH", "PORTAL"}
\* RegisterDirectionOptions: { opposite?: DirectionType | null }
RegisterInputs == {NoOptions} \cup {[opposite |-> o] : o \in DirectionNames}

\* "x" is the id of no node.
DirectionConnectCalls ==
    {<<"a", "NORTH", "b">>, <<"a", "PORTAL", "b">>, <<"x", "NORTH", "a">>}

\* graph.ts:685-687
registerDirection(direction, opts) ==
    /\ opposites' = registerCustomDirection(opposites, direction,
                                            OrElse(opts, "opposite", Null))
    /\ delivered' = <<>>
    /\ elsewhere' = NoCall
    /\ UNCHANGED <<tiles, tileIndex, customCanTraverse, closures, snapshot>>
    /\ UNCHANGED <<nodes, zones, connections, gateHeap, flagStore, traversal,
                   call, last, listeners>>

InitDirections ==
    /\ nodes = GateNodeIds
    /\ zones = [n \in NodeIds |-> NoZone]
    /\ connections = [n \in {} |-> <<>>]
    /\ gateHeap = [r \in HeapRefs |-> Free]
    /\ opposites = BuiltinOpposites
    /\ flagStore = Undefined
    /\ traversal = NoTraversal
    /\ call = NoCall
    /\ last = Returned("createNode", "")
    /\ listeners = NoListeners
    /\ tiles = NoTiles
    /\ tileIndex = NoIndex
    /\ customCanTraverse = Undefined
    /\ closures = NoClosures
    /\ elsewhere = NoCall
    /\ snapshot = Undefined
    /\ delivered = <<>>

NextDirections ==
    /\ \/ \E direction \in DirectionNames, opts \in RegisterInputs :
             registerDirection(direction, opts)
       \/ \E c \in DirectionConnectCalls : connect(c[1], c[2], c[3], NoOptions)
       \/ \E c \in DirectionConnectCalls : disconnect(c[1], c[2], NoOptions)
    /\ Bounded(MaxDirectionConnections)

SpecDirections == InitDirections /\ [][NextDirections]_vars

\* C22: the built-in direction pairs are immutable: after any sequence of
\* registerDirection calls, opposite(NORTH) = SOUTH and opposite(SOUTH) =
\* NORTH (in the model the table is seeded with this one built-in pair).
C22_BuiltinsImmutable ==
    /\ getOppositeDirection("NORTH") = "SOUTH"
    /\ getOppositeDirection("SOUTH") = "NORTH"

(***************************************************************************)
(* Graph analysis.  getSubgraphs walks the nodes in the order of the nodes *)
(* Map and, from each node not yet visited, collects what a breadth-first  *)
(* walk over outgoing and incoming connections finds.                      *)
(***************************************************************************)
\* getSubgraphs that follows outgoing connections only
Incoming_None(node, visited, i) == <<>>

\* graph.ts:752-759: connections.forEach, from the i-th source on: one push
\* of fromNode per connection that leads to node, unless fromNode is visited
RECURSIVE Incoming(_, _, _)
Incoming(node, visited, i) ==
    IF i > Len(NodeOrder) THEN <<>>
    ELSE LET fromNode == NodeOrder[i]
             found == IF fromNode \in DOMAIN connections /\ ~Includes(visited, fromNode)
                      THEN SelectSeq(connections[fromNode],
                                     LAMBDA conn : conn.target = node)
                      ELSE <<>>
         IN [k \in 1..Len(found) |-> fromNode] \o Incoming(node, visited, i + 1)

\* graph.ts:745-750: the targets of the exits that are not visited
Outgoing(node, visited) ==
    LET exits == getExits(node)
        targets == [k \in 1..Len(exits) |-> exits[k].target]
    IN SelectSeq(targets, LAMBDA target : ~Includes(visited, target))

\* graph.ts:735-760: the while loop; getExits (graph.ts:319-321) throws for a
\* queued id that is the id of no node
RECURSIVE Component(_, _, _)
Component(queue, visited, subgraph) ==
    IF queue = <<>> THEN [error |-> "", visited |-> visited, subgraph |-> subgraph]
    ELSE LET node == Head(queue)
         IN IF Includes(visited, node) THEN Component(Tail(queue), visited, subgraph)
            ELSE IF node \notin nodes
            THEN [error |-> "ValidationError", visited |-> visited, subgraph |-> subgraph]
            ELSE LET seen == Append(visited, node)
                 IN Component(Tail(queue) \o Outgoing(node, seen)
                                  \o Incoming(node, seen, 1),
                              seen, Append(subgraph, node))

\* graph.ts:730-764: nodes.forEach, from the i-th node on
RECURSIVE SubgraphsFrom(_, _, _)
SubgraphsFrom(i, visited, subgraphs) ==
    IF i > Len(NodeOrder) THEN [error |-> "", subgraphs |-> subgraphs]
    ELSE IF NodeOrder[i] \notin nodes \/ Includes(visited, NodeOrder[i])
    THEN SubgraphsFrom(i + 1, visited, subgraphs)
    ELSE LET found == Component(<<NodeOrder[i]>>, visited, <<>>)
         IN IF found.error # ""
            THEN [error |-> found.error, subgraphs |-> <<>>]
            ELSE SubgraphsFrom(i + 1, found.visited,
                               Append(subgraphs, found.subgraph))

\* graph.ts:726-769
getSubgraphs == SubgraphsFrom(1, <<>>, <<>>)

\* A call of getSubgraphs.
GetSubgraphs ==
    /\ call' = [op |-> "getSubgraphs", error |-> getSubgraphs.error,
                result |-> getSubgraphs.subgraphs]
    /\ UNCHANGED <<tiles, tileIndex, customCanTraverse, closures, elsewhere, snapshot>>
    /\ UNCHANGED <<nodes, zones, connections, gateHeap, opposites, flagStore, listeners,
                   traversal, last, delivered>>

(***************************************************************************)
(* SpecAnalysis: the graph on three nodes under its operations on nodes    *)
(* and connections and under deserialize of a snapshot with a dangling     *)
(* connection, with calls of getSubgraphs.                                 *)
(***************************************************************************)
MaxAnalysisConnections == 2

NextAnalysis ==
    /\ \/ NodeNext(NodeIds)
       \/ ConnectionNext(NodeIds, Directions, ConnectInputs, {NoOptions})
       \/ deserialize(DanglingTarget)
       \/ deserialize(EmptySnapshot)
       \/ GetSubgraphs
    /\ Bounded(MaxAnalysisConnections)

SpecAnalysis == Init /\ [][NextAnalysis]_vars

\* The pairs of nodes joined by a connection, in either direction.
Joined ==
    {<<p[1], connections[p[1]][p[2]].target>> : p \in AllConnections(connections)}
    \cup {<<connections[p[1]][p[2]].target, p[1]>> : p \in AllConnections(connections)}

\* The nodes a chain of at most k connections, followed in either direction,
\* leads to from the nodes of S.
RECURSIVE Chain(_, _)
Chain(S, k) ==
    IF k = 0 THEN S
    ELSE Chain(S \cup {m \in nodes : \E n \in S : <<n, m>> \in Joined}, k - 1)

Linked(n, m) == m \in Chain({n}, Cardinality(nodes))

\* The places of the node n in the components.
PlacesIn(subgraphs, n) ==
    {<<k, i>> \in (1..Len(subgraphs)) \X (1..Cardinality(NodeIds) + 1) :
        i <= Len(subgraphs[k]) /\ subgraphs[k][i] = n}

\* C24: on a graph without dangling connections, getSubgraphs() returns a
\* partition of all nodes: every node appears in exactly one component (and
\* once), a component holds nodes only, and two nodes are in the same
\* component exactly when they are linked by a chain of connections followed
\* in either direction.
C24_SubgraphsPartition ==
    (call.op = "getSubgraphs" /\ validate.valid)
    => /\ call.error = ""
       /\ \A n \in nodes : Cardinality(PlacesIn(call.result, n)) = 1
       /\ \A k \in 1..Len(call.result) :
             /\ call.result[k] # <<>>
             /\ \A i \in 1..Len(call.result[k]) : call.result[k][i] \in nodes
       /\ \A n \in nodes, m \in nodes :
             (\E p \in PlacesIn(call.result, n), q \in PlacesIn(call.result, m) :
                 p[1] = q[1])
             <=> Linked(n, m)

\* getSubgraphs was called on three nodes where "a" and "c" both lead to "b"
\* by one-way connections: "a", "b" and "c" are one component, found through
\* the incoming connection of "b".
C24_Witness ==
    /\ call.op = "getSubgraphs"
    /\ nodes = {"a", "b", "c"}
    /\ ConnectionCount(connections) = 2
    /\ \A n \in {"a", "c"} :
          /\ HasConnection(connections, n, "NORTH")
          /\ Conn(connections, n, "NORTH").target = "b"
    /\ call.result = <<<<"a", "b", "c">>>>

\* C36: after deserialize loaded a snapshot with a connection whose target
\* node does not exist, the corruption is visible only through validate():
\* a read-only query, here getSubgraphs, still completes without throwing.
C36_QueriesIgnoreDangling ==
    (call.op = "getSubgraphs" /\ ~validate.valid) => call.error = ""

(***************************************************************************)
(* SpecTiles: createNode with tiles and layers, and removeNode, on two     *)
(* node ids and the empty id, with a zone for "a" and a connection between *)
(* "a" and "b".  A tile names its layer or takes the one of the node.      *)
(***************************************************************************)
TileInputs ==
    {NoOptions,
     [tiles |-> <<[x |-> 0, y |-> 0]>>],
     [tiles |-> <<[x |-> 0, y |-> 0], [x |-> 1, y |-> 0]>>],
     [tiles |-> <<[x |-> 0, y |-> 0]>>, layer |-> 2],
     [tiles |-> <<[x |-> 1, y |-> 0, layer |-> 2]>>]}

MaxTileConnections == 2

\* "" is the id createNode rejects.
TileNodeIds == {"a", "b", ""}

NextTiles ==
    /\ \/ \E id \in TileNodeIds, opts \in TileInputs : CreateNode(id, opts)
       \/ \E id \in TileNodeIds : removeNode(id)
       \/ ZoneNext(ZoneNodeIds, ZoneIds)
       \/ ConnectionNext(GateNodeIds, {"NORTH"}, {NoOptions}, {NoOptions})
    /\ Bounded(MaxTileConnections)

SpecTiles == Init /\ [][NextTiles]_vars

\* C25: all tiles of a node return that node's id: after any sequence of
\* createNode and removeNode calls, getNodeAt(x, y, layer) returns n for
\* every existing node n and every tile (x, y, layer) of n.
C25_TilesReturnNode ==
    \A n \in nodes :
        \A i \in 1..Len(getTiles(n)) :
            getNodeAt(getTiles(n)[i].x, getTiles(n)[i].y, getTiles(n)[i].layer) = n

(***************************************************************************)
(* SpecReach: getReachable with and without maxDistance, and findPath with *)
(* avoidLocked, on four nodes joined by one-way connections, one of which  *)
(* may carry a locked gate; the context holds the key or nothing.          *)
(***************************************************************************)
MaxReachConnections == 3

ReachEdges ==
    {<<"a", "NORTH", "b">>, <<"b", "NORTH", "c">>, <<"c", "NORTH", "d">>,
     <<"a", "SOUTH", "c">>, <<"c", "SOUTH", "a">>}
ReachConnectInputs ==
    {<<edge, [bidirectional |-> FALSE]>> : edge \in ReachEdges}
    \cup {<<edge, [bidirectional |-> FALSE, gate |-> g]>> :
            edge \in PathGatedEdges, g \in PathGates}
ReachDistances == {0, 1, 2}
\* ReachableOptions: { maxDistance?: number, context?: TraversalContext }
ReachOptions ==
    {maxDistance @@ context :
        maxDistance \in {NoOptions} \cup {[maxDistance |-> k] : k \in ReachDistances},
        context \in {NoOptions, [context |-> [inventory |-> <<"key">>]]}}
\* "x" is the id of no node.
ReachQueries == ({"a"} \X ReachOptions) \cup {<<"x", NoOptions>>}

\* PathfindingOptions: { avoidLocked?: boolean, context?: TraversalContext }
AvoidQueries ==
    {<<"a", "c", [avoidLocked |-> TRUE] @@ context>> :
        context \in {NoOptions, [context |-> [inventory |-> <<"key">>]]}}
    \cup {<<"x", "c", NoOptions>>}

NextReach ==
    \/ /\ \E input \in ReachConnectInputs :
             connect(input[1][1], input[1][2], input[1][3], input[2])
       /\ Bounded(MaxReachConnections)
    \/ \E query \in ReachQueries : GetReachable(query[1], query[2])
    \/ \E query \in AvoidQueries : FindPath(query[1], query[2], query[3])

SpecReach == InitPath /\ [][NextReach]_vars

\* The nodes that the connections canTraverse allows under context lead to
\* from the nodes of S, in at most k hops.
\* The targets of the exits of u that canTraverse allows under context.
AllowedTargets(u, context) ==
    {getExits(u)[i].target :
        i \in {j \in 1..Len(getExits(u)) :
                 canTraverse(u, getExits(u)[j].direction, context).allowed}}

RECURSIVE Within(_, _, _)
Within(S, k, context) ==
    IF k <= 0 THEN S
    ELSE Within(S \cup UNION {AllowedTargets(u, context) : u \in S}, k - 1, context)

\* C26: getReachable(from, {maxDistance: k, context}) returns exactly the
\* nodes whose minimum number of hops from from, over connections allowed by
\* canTraverse under that context, is at most k (every node that can be
\* reached when maxDistance is not given); from itself is always included
\* and no node is returned twice.
C26_ReachableWithinDistance ==
    call.op = "getReachable"
    => /\ Includes(call.result, call.from)
       /\ \A i \in 1..Len(call.result), j \in 1..Len(call.result) :
             call.result[i] = call.result[j] => i = j
       /\ {call.result[i] : i \in 1..Len(call.result)}
            = Within({call.from},
                     OrElse(call.opts, "maxDistance", Cardinality(PathNodeIds)),
                     CallContext)

\* getReachable("a", {maxDistance: 1}) on a -> b -> c answered "a" and "b":
\* "c" is two hops away.
C26_Witness ==
    /\ call.op = "getReachable"
    /\ call.opts = [maxDistance |-> 1]
    /\ HasConnection(connections, "a", "NORTH")
    /\ HasConnection(connections, "b", "NORTH")
    /\ ~HasGate(connections, "b", "NORTH")
    /\ ~HasConnection(connections, "a", "SOUTH")
    /\ call.result = <<"a", "b">>

\* The connections from u to v whose gate, if any, is not locked.
Unlocked(u, v) ==
    {i \in 1..Len(getExits(u)) :
        /\ getExits(u)[i].target = v
        /\ ~OrElse(getExits(u)[i].gate, "locked", FALSE)}

\* C27: with avoidLocked: true, findPath avoids locked gates entirely: no
\* returned path uses a connection whose gate has locked: true, whatever the
\* inventory of the context holds; every step of the path has a connection
\* that is not locked.
C27_AvoidsLocked ==
    (/\ call.op = "findPath"
     /\ OrElse(call.opts, "avoidLocked", FALSE)
     /\ call.result.kind = "path")
    => \A i \in 1..(Len(call.result.path) - 1) :
          Unlocked(call.result.path[i], call.result.path[i + 1]) # {}

\* C28: createNode(id) fails with ValidationError exactly when id is empty
\* or a node with that id currently exists; the failing call leaves the
\* nodes, their tiles, zones and connections unchanged; and the id of a node
\* that was just removed can be created again.
C28_CreateNodeErrors ==
    [][/\ \A id \in TileNodeIds :
             createNodeError(id)
               = IF id = "" \/ id \in nodes THEN "ValidationError" ELSE ""
       /\ \A id \in nodes \cup {""}, opts \in TileInputs :
             CreateNode(id, opts)
             => UNCHANGED <<nodes, tiles, tileIndex, zones, connections, gateHeap>>
       /\ \A id \in TileNodeIds :
             last' = Returned("removeNode", id) => createNodeError(id)' = ""]_vars

\* removeNode("b") has returned on a graph where "a" has tiles and a zone:
\* createNode("a") and createNode("") throw, createNode("b") does not.
C28_Witness ==
    /\ last = Returned("removeNode", "b")
    /\ nodes = {"a"}
    /\ zones["a"] = "z1"
    /\ getTiles("a") # <<>>
    /\ createNodeError("a") = "ValidationError"
    /\ createNodeError("") = "ValidationError"
    /\ createNodeError("b") = ""

(***************************************************************************)
(* SpecOverride: graphs created with a canTraverse override, on four nodes *)
(* joined by one-way connections, one of which may carry a locked gate,    *)
(* under canTraverse, findPath, getDistance and getReachable.              *)
(***************************************************************************)
MaxOverrideConnections == 3

\* createSpatialGraph({ canTraverse }): an override that allows everything,
\* and one that denies the connections that lead to "c"
OverrideInputs == {[deny |-> {}], [deny |-> {"c"}]}

InitOverride ==
    /\ nodes = PathNodeIds
    /\ zones = [n \in NodeIds |-> NoZone]
    /\ connections = [n \in {} |-> <<>>]
    /\ gateHeap = [r \in HeapRefs |-> Free]
    /\ opposites = BuiltinOpposites
    /\ flagStore = Undefined
    /\ traversal = NoTraversal
    /\ call = NoCall
    /\ last = Returned("createNode", "")
    /\ listeners = NoListeners
    /\ delivered = <<>>
    /\ tiles = NoTiles
    /\ tileIndex = NoIndex
    /\ customCanTraverse \in OverrideInputs
    /\ closures = NoClosures
    /\ elsewhere = NoCall
    /\ snapshot = Undefined

OverrideEdges ==
    {<<"a", "NORTH", "b">>, <<"b", "NORTH", "c">>, <<"b", "SOUTH", "d">>,
     <<"c", "NORTH", "d">>}
OverrideGatedEdges == {<<"a", "NORTH", "b">>, <<"b", "NORTH", "c">>}
OverrideConnectInputs ==
    {<<edge, [bidirectional |-> FALSE]>> : edge \in OverrideEdges}
    \cup {<<edge, [bidirectional |-> FALSE, gate |-> g]>> :
            edge \in OverrideGatedEdges, g \in PathGates}

\* graph.ts:571-573
canReach(from, to, opts) == getDistance(from, to, opts).kind # "Infinity"

NextOverride ==
    \/ /\ \E input \in OverrideConnectInputs :
             connect(input[1][1], input[1][2], input[1][3], input[2])
       /\ Bounded(MaxOverrideConnections)
    \/ \E from \in {"a", "b"} : CanTraverse(from, "NORTH", NoOptions)
    \/ \E from \in {"a", "x"} : FindPath(from, "d", NoOptions)
    \/ \E from \in {"a", "x"} : GetDistance(from, "d", NoOptions)
    \/ \E from \in {"a", "x"} : GetReachable(from, NoOptions)

SpecOverride == InitOverride /\ [][NextOverride]_vars

\* The targets of the exits of u that the override allows.
OverrideTargets(u) ==
    {getExits(u)[i].target :
        i \in {j \in 1..Len(getExits(u)) :
                 Override(customCanTraverse, getExits(u)[j], getExits(u)[j].gate,
                          NoOptions).allowed}}

\* The nodes that connections the override allows lead to from the nodes of
\* S, in at most k hops.
RECURSIVE OverrideWithin(_, _)
OverrideWithin(S, k) ==
    IF k = 0 THEN S
    ELSE OverrideWithin(S \cup UNION {OverrideTargets(u) : u \in S}, k - 1)

OverrideReach(from) == OverrideWithin({from}, Cardinality(PathNodeIds))

\* C29: when a canTraverse override is configured at graph creation it fully
\* replaces the default gate rules: for every existing connection,
\* canTraverse returns exactly the override's result, and findPath,
\* getDistance, canReach and getReachable expand a connection if and only if
\* the override allows it: they reach exactly the nodes that chains of
\* connections the override allows lead to, and the steps of a returned path
\* are connections the override allows.
C29_OverrideReplacesDefault ==
    /\ (traversal.op = "canTraverse"
        /\ HasConnection(connections, traversal.from, traversal.direction))
       => traversal.result
            = Override(customCanTraverse,
                       getConnection(traversal.from, traversal.direction),
                       getGate(traversal.from, traversal.direction),
                       traversal.context)
    /\ call.op = "getReachable"
       => {call.result[i] : i \in 1..Len(call.result)} = OverrideReach(call.from)
    /\ call.op = "findPath"
       => /\ call.result.kind = "path" <=> call.to \in OverrideReach(call.from)
          /\ call.result.kind = "path"
             => \A i \in 1..(Len(call.result.path) - 1) :
                   call.result.path[i + 1] \in OverrideTargets(call.result.path[i])
    /\ call.op = "getDistance"
       => /\ call.result.kind = "number" <=> call.to \in OverrideReach(call.from)
          /\ canReach(call.from, call.to, call.opts)
               <=> call.to \in OverrideReach(call.from)

\* The override allows everything; "b" leads to "c" through a locked gate
\* and nothing else leads on: findPath("a", "d") went through the gate
\* without a key.
C29_Witness ==
    /\ customCanTraverse = [deny |-> {}]
    /\ HasGate(connections, "b", "NORTH")
    /\ getGate("b", "NORTH").locked
    /\ ~HasConnection(connections, "b", "SOUTH")
    /\ call.op = "findPath"
    /\ call.result = [kind |-> "path", path |-> <<"a", "b", "c", "d">>]
    /\ traversal.op = "canTraverse"
    /\ traversal.from = "b"
    /\ traversal.result = Allowed

(***************************************************************************)
(* SpecUnsubscribe: on("nodeCreated", callback) for the callbacks "f" and  *)
(* "g", calls of the functions it returned, and createNode and removeNode  *)
(* on two nodes.  A callback may be registered by several calls of on.     *)
(***************************************************************************)
MaxRegistrations == 2

\* No more than max functions returned for one (event, callback) are kept
\* uncalled.
Registered(max) == \A p \in DOMAIN closures' : closures'[p] <= max

NextUnsubscribe ==
    /\ \/ \E callback \in EventCallbacks : on("nodeCreated", callback)
       \/ \E callback \in EventCallbacks : unsubscribe("nodeCreated", callback)
       \/ NodeNext(GateNodeIds)
    /\ Registered(MaxRegistrations)

SpecUnsubscribe == Init /\ [][NextUnsubscribe]_vars

\* The callback ran for the event during the call that has just returned.
Invoked(callback, event) ==
    \E i \in 1..Len(delivered') :
        delivered'[i].callback = callback /\ delivered'[i].event = event

\* C30: calling the unsubscribe function returned by on(event, cb) cancels
\* exactly that registration: at a later emission of the event, here by a
\* createNode that succeeds, cb is invoked exactly when a registration of it
\* is left whose function was not called, be it a second registration of the
\* same callback made by another call of on.
C30_UnsubscribeExactlyOne ==
    [][(last'.op = "createNode" /\ nodes' # nodes)
       => \A callback \in EventCallbacks :
             Invoked(callback, "nodeCreated")
             <=> Closures(closures, "nodeCreated", callback) > 0]_vars

(***************************************************************************)
(* SpecReentrant: connect on a graph whose connectionCreated callback      *)
(* changes the graph.  A callback is the call it makes; it makes it only   *)
(* when the call would neither throw nor find its work done, so that it    *)
(* does nothing when it is invoked again from inside its own call.  At     *)
(* most one callback is registered.                                        *)
(***************************************************************************)
MaxReentrantConnections == 2

ReentrantNodeIds == {"a", "b", "c"}

\* () => { if (graph.hasNode(id)) graph.removeNode(id) }
RemoveNodeCallback(id) ==
    [calls |-> "removeNode", from |-> id, direction |-> "", to |-> ""]
\* () => { if (graph.hasNode(from)) graph.disconnect(from, direction) }
DisconnectCallback(from, direction) ==
    [calls |-> "disconnect", from |-> from, direction |-> direction, to |-> ""]
\* () => { if (graph.hasNode(from) && graph.hasNode(to) &&
\*             !graph.getConnection(from, direction))
\*           graph.connect(from, direction, to) }
ConnectCallback(from, direction, to) ==
    [calls |-> "connect", from |-> from, direction |-> direction, to |-> to]

ReentrantCallbacks ==
    {RemoveNodeCallback("b"), RemoveNodeCallback("a"),
     DisconnectCallback("a", "NORTH"), ConnectCallback("b", "NORTH", "c")}

\* graph.ts:171-201, 208-266, 268-297, called from a callback: the nodes and
\* the connections s after the call the callback makes.  The
\* connectionCreated events of a connect made here invoke the callback
\* again, which finds its connection stored and returns.
Reaction(callback, s) ==
    IF callback.calls = "removeNode" /\ callback.from \in s.nodes
    THEN [nodes |-> s.nodes \ {callback.from},
          connections |-> RemoveConnectionsOf(s.connections, callback.from)]
    ELSE IF callback.calls = "disconnect" /\ callback.from \in s.nodes
            /\ HasConnection(s.connections, callback.from, callback.direction)
    THEN [s EXCEPT !.connections =
             Disconnected(@, callback.from, callback.direction, NoOptions)]
    ELSE IF callback.calls = "connect" /\ {callback.from, callback.to} \subseteq s.nodes
            /\ ~HasConnection(s.connections, callback.from, callback.direction)
    THEN [s EXCEPT !.connections =
             Connected(@, callback.from, callback.direction, callback.to,
                       NoOptions, NoGate)]
    ELSE s

\* graph.ts:60-67: callbacks.forEach invokes the callbacks inside the emit
\* call, each on the graph the one before it left
RECURSIVE Emitted(_, _, _)
Emitted(callbacks, s, i) ==
    IF i > Len(callbacks) THEN s
    ELSE Emitted(callbacks, Reaction(callbacks[i], s), i + 1)

\* graph.ts:234-239: the graph after the forward connection was stored and
\* announced
ForwardEmitted(from, direction, to, opts, gate) ==
    Emitted(listeners["connectionCreated"],
            [nodes |-> nodes,
             connections |-> PutConnection(connections, from,
                 ForwardConnection(direction, to, OrElse(opts, "cost", 1), gate,
                                   OrElse(opts, "bidirectional", TRUE)))],
            1)

\* graph.ts:241-264: the reverse connection is looked for, stored and
\* announced in the graph the callbacks left; to is not looked up again
ReverseEmitted(s, from, direction, to, opts, gate) ==
    LET opposite == getOppositeDirection(direction)
    IN IF OrElse(opts, "bidirectional", TRUE) /\ opposite # Null
          /\ ReverseWanted(s.connections, to, opposite)
       THEN Emitted(listeners["connectionCreated"],
                    [s EXCEPT !.connections =
                        PutConnection(@, to,
                            ReverseConnection(opposite, from,
                                              OrElse(opts, "cost", 1), gate))],
                    1)
       ELSE s

\* graph.ts:208-266, with callbacks that change the graph.  delivered lists
\* the events of the connect itself.
Connect(from, direction, to, opts) ==
    \/ /\ ~({from, to} \subseteq nodes)
       /\ Throw
    \/ /\ from \in nodes /\ to \in nodes
       /\ LET s == ReverseEmitted(ForwardEmitted(from, direction, to, opts, NoGate),
                                  from, direction, to, opts, NoGate)
          IN /\ Store(s.connections, gateHeap)
             /\ nodes' = s.nodes
             /\ zones' = [n \in DOMAIN zones |->
                             IF n \in nodes \ s.nodes THEN NoZone ELSE zones[n]]
             /\ tiles' = [n \in DOMAIN tiles \cap s.nodes |-> tiles[n]]
             /\ tileIndex' = [k \in {j \in DOMAIN tileIndex :
                                        tileIndex[j] \in s.nodes} |-> tileIndex[k]]
       /\ delivered' = ConnectEmissions(connections, from, direction, to, opts, NoGate)
       /\ last' = Returned("connect", "")
       /\ UNCHANGED <<opposites, flagStore, customCanTraverse, listeners, closures, elsewhere>>
       /\ Forget

NextReentrant ==
    /\ \/ \E id \in ReentrantNodeIds : createNode(id)
       \/ \E callback \in ReentrantCallbacks :
             /\ listeners["connectionCreated"] = <<>>
             /\ on("connectionCreated", callback)
       \/ \E from \in ReentrantNodeIds, direction \in Directions,
             to \in ReentrantNodeIds : Connect(from, direction, to, NoOptions)
    /\ Bounded(MaxReentrantConnections)

SpecReentrant == Init /\ [][NextReentrant]_vars

\* C31: referential integrity survives re-entrant callbacks: when a
\* connectionCreated callback calls removeNode, connect or disconnect while
\* a bidirectional connect is in progress, then after the connect returned
\* every stored connection has an existing source node and an existing
\* target node, that is validate().valid is true.
C31_ReentrantIntegrity ==
    (last.op = "connect" /\ listeners["connectionCreated"] # <<>>)
        => validate.valid

(***************************************************************************)
(* SpecMirror: createNode, removeNode, and connect and disconnect with     *)
(* default options, over NORTH and SOUTH, on three nodes.                  *)
(***************************************************************************)
MaxMirrorConnections == 3

NextMirror ==
    /\ \/ NodeNext(NodeIds)
       \/ ConnectionNext(NodeIds, Directions, {NoOptions}, {NoOptions})
    /\ Bounded(MaxMirrorConnections)

SpecMirror == Init /\ [][NextMirror]_vars

\* The connection stored at (A, D) has its mirror: the connection at
\* (target, opposite(D)) exists and leads to A.
HasMirror(A, D) ==
    LET B == Conn(connections, A, D).target
        opposite == getOppositeDirection(D)
    IN /\ opposite # Null
       /\ HasConnection(connections, B, opposite)
       /\ Conn(connections, B, opposite).target = A

\* C33: in a graph changed only by createNode, removeNode, and connect and
\* disconnect with default options over directions that have an opposite,
\* after every operation each connection (A, D) -> B has its mirror
\* (B, opposite(D)) -> A, also after a connect that wrote over (A, D) or
\* that found (B, opposite(D)) occupied.
C33_AlwaysMirrored ==
    \A A \in NodeIds, D \in Directions :
        HasConnection(connections, A, D) => HasMirror(A, D)

(***************************************************************************)
(* SpecRegistry: registerDirection called with custom names only, each     *)
(* with another custom name, with itself or with nothing as its opposite.  *)
(* The built-in pair is never named.                                       *)
(***************************************************************************)
CustomNames == {"ENTER", "EXIT", "PORTAL", "WARP"}
CustomInputs == {NoOptions} \cup {[opposite |-> o] : o \in CustomNames}

NextRegistry ==
    \E direction \in CustomNames, opts \in CustomInputs :
        registerDirection(direction, opts)

SpecRegistry == Init /\ [][NextRegistry]_vars

\* C35: after any sequence of registerDirection calls the opposite table is
\* symmetric: whenever opposite(d) = o with o not null, opposite(o) = d.
C35_OppositesSymmetric ==
    \A d \in DOMAIN opposites :
        getOppositeDirection(d) # Null
        => getOppositeDirection(getOppositeDirection(d)) = d

(***************************************************************************)
(* SpecShared: two graphs of one process.  The graph of the model has the  *)
(* nodes "a" and "b"; the other graph was created before or after it and   *)
(* is only used to call registerDirection on it.  The opposites Map is a   *)
(* const of the module direction.ts (direction.ts:31), so the call writes  *)
(* the Map the graph of the model reads.                                   *)
(***************************************************************************)
MaxSharedConnections == 2

SharedNames == {"PORTAL", "WARP"}
SharedInputs == {NoOptions} \cup {[opposite |-> o] : o \in SharedNames}

\* "x" is the id of no node.
SharedConnectCalls ==
    (GateNodeIds \X SharedNames \X GateNodeIds) \cup {<<"x", "PORTAL", "a">>}

\* graph.ts:685-687, called on the other graph: registerCustomDirection
\* writes the Map of the module; nothing of the graph of the model is read
\* or written
registerDirectionElsewhere(direction, opts) ==
    /\ opposites' = registerCustomDirection(opposites, direction,
                                            OrElse(opts, "opposite", Null))
    /\ elsewhere' = [op |-> "registerDirection", direction |-> direction,
                     opposite |-> OrElse(opts, "opposite", Null)]
    /\ UNCHANGED <<nodes, zones, connections, gateHeap, flagStore, traversal, call,
                   last, listeners, delivered, tiles, tileIndex, customCanTraverse,
                   closures, snapshot>>

NextShared ==
    /\ \/ \E direction \in SharedNames, opts \in SharedInputs :
             registerDirectionElsewhere(direction, opts)
       \/ \E direction \in SharedNames : registerDirection(direction, NoOptions)
       \/ \E c \in SharedConnectCalls : connect(c[1], c[2], c[3], NoOptions)
       \/ \E c \in SharedConnectCalls : disconnect(c[1], c[2], NoOptions)
    /\ Bounded(MaxSharedConnections)

SpecShared == InitDirections /\ [][NextShared]_vars

\* The step is a call connect(from, direction, to) with default options that
\* did not throw.
SharedConnect(from, direction, to) ==
    /\ last'.op = "connect"
    /\ HasConnection(connections', from, direction)
    /\ Conn(connections', from, direction).target = to
    /\ connect(from, direction, to, NoOptions)

\* C37: the direction/opposite registry is shared by all graphs of the
\* process: after registerDirection(D, {opposite: o}) was called on another
\* graph, connect(from, D, to) on this graph, created earlier, stores the
\* mirror (to, o) -> from where no connection is, and disconnect(from, D)
\* removes the connection at (target, o); after registerDirection(D, {})
\* on another graph connect(from, D, to) stores no mirror.
C37_RegistryShared ==
    [][elsewhere.op = "registerDirection"
       => \A from \in GateNodeIds :
             LET D == elsewhere.direction
                 o == elsewhere.opposite
             IN /\ \A to \in GateNodeIds :
                      SharedConnect(from, D, to)
                      => IF o = Null
                         THEN \A n \in GateNodeIds, d \in SharedNames :
                                 <<n, d>> # <<from, D>>
                                 => (HasConnection(connections', n, d)
                                       <=> HasConnection(connections, n, d))
                         ELSE (~HasConnection(connections, to, o)
                                 /\ <<to, o>> # <<from, D>>)
                              => /\ HasConnection(connections', to, o)
                                 /\ Conn(connections', to, o).target = from
                /\ (/\ o # Null
                    /\ DisconnectCall(from, D, NoOptions)
                    /\ Conn(connections, from, D).bidirectional)
                   => ~HasConnection(connections',
                                     Conn(connections, from, D).target, o)]_vars

\* registerDirection("PORTAL", {opposite: "WARP"}) was called on the other
\* graph, and connect("a", "PORTAL", "b") on this graph then stored the
\* reverse connection ("b", "WARP") -> "a".
C37_Witness ==
    /\ last.op = "connect"
    /\ elsewhere = [op |-> "registerDirection", direction |-> "PORTAL",
                    opposite |-> "WARP"]
    /\ HasConnection(connections, "a", "PORTAL")
    /\ Conn(connections, "a", "PORTAL").target = "b"
    /\ Conn(connections, "a", "PORTAL").bidirectional
    /\ HasConnection(connections, "b", "WARP")
    /\ Conn(connections, "b", "WARP").target = "a"
    /\ ~Conn(connections, "b", "WARP").bidirectional

(***************************************************************************)
(* SpecSnapshot: the graph of the nodes "a" and "b" under its operations   *)
(* on nodes, connections, gates and zones, with a caller that keeps the    *)
(* object serialize() returned and looks at it after later calls.          *)
(***************************************************************************)
MaxSnapshotConnections == 2

\* graph.ts:808-836: serialize() called and its result kept.  The entries
\* are new objects; the gate of an entry is conn.gate, the Gate object of
\* the connection itself (graph.ts:821).
Serialize ==
    /\ snapshot' = [nodes |-> serialize.nodes, connections |-> serialize.connections]
    /\ UNCHANGED <<nodes, zones, connections, gateHeap, opposites, flagStore,
                   traversal, call, last, listeners, delivered, tiles, tileIndex,
                   customCanTraverse, closures, elsewhere>>

NextSnapshot ==
    /\ \/ NodeNext({"b"})
       \/ \E to \in GateNodeIds, opts \in GateConnectInputs :
             connect("a", "NORTH", to, opts)
       \/ \E from \in GateNodeIds, direction \in Directions :
             disconnect(from, direction, NoOptions)
       \/ GateNext({"a"}, {"NORTH"}, GateInputs, GateUpdates)
       \/ ZoneNext(ZoneNodeIds, ZoneIds)
       \/ Serialize
    /\ Bounded(MaxSnapshotConnections)

SpecSnapshot == InitDirections /\ [][NextSnapshot]_vars

\* What the caller reads in the snapshot snap when the Gate objects are as
\* in heap.
Reads(snap, heap) ==
    [nodes |-> snap.nodes,
     connections |->
        [from \in DOMAIN snap.connections |->
            [i \in 1..Len(snap.connections[from]) |->
                [target |-> snap.connections[from][i].target,
                 direction |-> snap.connections[from][i].direction,
                 cost |-> snap.connections[from][i].cost,
                 gate |-> GateOf(heap, snap.connections[from][i])]]]]

\* C38: serialize() returns a snapshot that is independent of the live
\* graph: a later call of updateGate, setGate, removeGate, setZone,
\* removeZone, connect, disconnect, createNode or removeNode does not change
\* what a snapshot returned before says.
C38_SnapshotIndependent ==
    [][(snapshot # Undefined /\ ~Serialize)
       => Reads(snapshot', gateHeap') = Reads(snapshot, gateHeap)]_vars

(***************************************************************************)
(* SpecAvoid: findPath and getDistance from "a" to "c" with avoidLocked    *)
(* true, false and omitted, on the graphs of SpecReach; the context holds  *)
(* the key or nothing.                                                     *)
(***************************************************************************)
MaxAvoidConnections == 3

AvoidInputs == {NoOptions, [avoidLocked |-> TRUE], [avoidLocked |-> FALSE]}

\* "x" is the id of no node.
AvoidLockedQueries ==
    {<<"a", "c", avoid @@ context>> :
        avoid \in AvoidInputs,
        context \in {NoOptions, [context |-> [inventory |-> <<"key">>]]}}
    \cup {<<"x", "c", NoOptions>>}

NextAvoid ==
    \/ /\ \E input \in ReachConnectInputs :
             connect(input[1][1], input[1][2], input[1][3], input[2])
       /\ Bounded(MaxAvoidConnections)
    \/ \E query \in AvoidLockedQueries : FindPath(query[1], query[2], query[3])
    \/ \E query \in AvoidLockedQueries : GetDistance(query[1], query[2], query[3])

SpecAvoid == InitPath /\ [][NextAvoid]_vars

\* The options opts with avoidLocked as in avoid.
WithAvoid(opts, avoid) ==
    avoid @@ [key \in DOMAIN opts \ {"avoidLocked"} |-> opts[key]]

====
